---- MODULE Spec2Model ----
(***************************************************************************)
(* State-machine model of the log-processing core of the OpenAI realtime   *)
(* log visualizer: src/lib/parse-log.ts (line decoding and session         *)
(* segmentation), src/lib/group-events.ts (response-cycle grouping and     *)
(* delta aggregation), src/lib/audio-player.ts (PCM16 audio decoding and   *)
(* playback) and src/components/AudioPlayButton.tsx (the play button).     *)
(*                                                                         *)
(* JavaScript objects are modelled as records whose DOMAIN is the set of   *)
(* keys that carry a value: a key whose value is undefined is absent.      *)
(***************************************************************************)
EXTENDS Integers, Sequences, FiniteSets, TLC

VARIABLES
    events,         \* groupEvents: the elements of `events` the for-loop has consumed
    result,         \* groupEvents: const result: EventGroup[]
    currentCycle,   \* groupEvents: let currentCycle: ResponseCycle | null
    cycleEvents,    \* groupEvents: let cycleEvents: ParsedLogLine[]
    returned,       \* groupEvents: TRUE once `return result` has executed
    aggEvents,      \* aggregateDeltaEvents: the elements of `events` its loop has consumed
    aggResult,      \* aggregateDeltaEvents: const result
    currentGroup,   \* aggregateDeltaEvents: let currentGroup: DeltaGroup | null
    aggReturned,    \* aggregateDeltaEvents: TRUE once `return result` has executed
    lines,          \* parseLogFile: the elements of `lines` the for-loop has consumed
    sessions,       \* parseLogFile: const sessions: Session[]
    currentSession, \* parseLogFile: index in sessions of the object currentSession refers to, 0 for null
    sessionCounter, \* parseLogFile: let sessionCounter
    warnings,       \* console.warn calls made by parseLogLine, in order
    parsePc,        \* parseLogFile: "loop", "returned" or "thrown"
    lineIn,         \* parseLogLine on its own: the argument line
    lineNo,         \* parseLogLine on its own: the argument lineNumber
    lineOut,        \* parseLogLine on its own: what the call returned and warned
    linePc,         \* parseLogLine on its own: "call" or "done"
    pcmIn,          \* decodeAudioDelta on its own: the PCM bytes the sender made the chunk from
    b64In,          \* decodeAudioDelta on its own: the argument base64
    decOut,         \* decodeAudioDelta on its own: the outcome of the call
    decPc,          \* decodeAudioDelta on its own: "call" or "done"
    audioEvents,    \* extractAudioFromDeltaGroup: the elements of `events` its loop has consumed
    chunks,         \* extractAudioFromDeltaGroup: const chunks: Float32Array[]
    audioWarnings,  \* extractAudioFromDeltaGroup: number of console.warn calls made
    audioOut,       \* extractAudioFromDeltaGroup: the value returned
    audioPc,        \* extractAudioFromDeltaGroup: "loop", "returned" or "thrown"
    combineIn,      \* combineAudioChunks on its own: the argument chunks
    combineOut,     \* combineAudioChunks on its own: the value returned
    combinePc,      \* combineAudioChunks on its own: "call" or "done"
    statsGroup,     \* getDeltaGroupStats: the argument group
    statsOut,       \* getDeltaGroupStats: the value returned
    statsPc,        \* getDeltaGroupStats: "build", "call" or "done"
    pipeText,       \* pipeline: the lines of the text typed so far
    pipeLeft,       \* pipeline: the locals each call of parseLogFile so far ended with, in order
    pipeRuns,       \* pipeline: what each run over the finished text returned, in order
    pipePc,         \* pipeline: "input", "once" or "twice"
    catIn,          \* getEventCategory: the argument eventType
    catOut,         \* getEventCategory: the value returned
    catPc,          \* getEventCategory: "call" or "done"
    audioContext,   \* audio-player.ts: let audioContext: AudioContext | null
    players,        \* the controllers createAudioPlayer has returned, each with its closure variables
    nodes,          \* the AudioBufferSourceNodes play() has started, in order
    playOut,        \* createAudioPlayer on its own: the outcome of the last call of play()
    isPlaying,      \* AudioPlayButton: const [isPlaying, setIsPlaying]
    playerRef,      \* AudioPlayButton: index in players of playerRef.current, 0 for null
    audioDataRef,   \* AudioPlayButton: audioDataRef.current
    error,          \* AudioPlayButton: const [error, setError]
    isLoading,      \* AudioPlayButton: const [isLoading, setIsLoading]
    mounted         \* AudioPlayButton: TRUE while the component is mounted

groupVars == <<events, result, currentCycle, cycleEvents, returned>>
aggVars == <<aggEvents, aggResult, currentGroup, aggReturned>>
parseVars == <<lines, sessions, currentSession, sessionCounter, warnings, parsePc>>
lineVars == <<lineIn, lineNo, lineOut, linePc>>
decodeVars == <<pcmIn, b64In, decOut, decPc>>
extractVars == <<audioEvents, chunks, audioWarnings, audioOut, audioPc>>
combineVars == <<combineIn, combineOut, combinePc>>
audioVars == <<decodeVars, extractVars, combineVars>>
statsVars == <<statsGroup, statsOut, statsPc>>
pipeVars == <<pipeText, pipeLeft, pipeRuns, pipePc>>
categoryVars == <<catIn, catOut, catPc>>
playerVars == <<audioContext, players, nodes, playOut>>
buttonVars == <<isPlaying, playerRef, audioDataRef, error, isLoading, mounted>>
playbackVars == <<playerVars, buttonVars>>
restVars == <<statsVars, pipeVars, categoryVars, playbackVars>>
vars == <<groupVars, aggVars, parseVars, lineVars, audioVars, restVars>>
\* everything but the variables of one function
coreVars == <<groupVars, aggVars, parseVars, lineVars, audioVars>>
notStats == <<coreVars, pipeVars, categoryVars, playbackVars>>
notPipe == <<coreVars, statsVars, categoryVars, playbackVars>>
notCategory == <<coreVars, statsVars, pipeVars, playbackVars>>
notPlayback == <<coreVars, statsVars, pipeVars, categoryVars>>

----------------------------------------------------------------------------
(* Bounds of the model *)

\* longest event array handed to groupEvents
MaxEvents == 4
\* longest buffer handed to aggregateDeltaEvents on its own
MaxBuffer == 6
\* most lines of a text handed to parseLogFile
MaxLines == 5
\* most bracketed or timestamp prefixes of a line handed to parseLogLine on its own
MaxPrefixes == 3
\* most bytes of the PCM data a chunk handed to decodeAudioDelta on its own encodes
MaxBytes == 4
\* most buffers handed to combineAudioChunks on its own
MaxChunks == 3
\* longest event array handed to extractAudioFromDeltaGroup
MaxAudioEvents == 3
\* most members of a group handed to getDeltaGroupStats
MaxMembers == 5
\* most lines of a text handed to the pipeline
MaxPipeLines == 3
\* source nodes started in one run of the player or of the button
MaxNodes == 3
\* samples of the audio a controller is created with
MaxAudioLength == 2

----------------------------------------------------------------------------
(* JavaScript values *)

\* null / an empty slot
Null == [kind |-> "null"]

\* o.k is not undefined
Has(o, k) == k \in DOMAIN o

\* { ...o, k: v }
With(o, k, v) == [x \in DOMAIN o \cup {k} |-> IF x = k THEN v ELSE o[x]]

\* { ...o, k: src.k }: copying a possibly-undefined property
CopyKey(o, k, src, srcKey) == IF Has(src, srcKey) THEN With(o, k, src[srcKey]) ELSE o

\* x || 0 for a numeric property of o that may be missing
OrZero(o, k) == IF Has(o, k) THEN o[k] ELSE 0

\* outcomes of a call
Threw == [threw |-> TRUE]
Returned(value) == [threw |-> FALSE, value |-> value]

----------------------------------------------------------------------------
(* lib/types.ts *)

SPEECH_START == "input_audio_buffer.speech_started"
SPEECH_STOP == "input_audio_buffer.speech_stopped"
RESPONSE_START == "response.created"
FUNCTION_CALL == "response.function_call_arguments.done"

DELTA_EVENT_TYPES ==
    << "response.audio.delta",
       "response.audio_transcript.delta",
       "response.text.delta",
       "response.function_call_arguments.delta",
       "conversation.item.input_audio_transcription.delta" >>

\* EVENT_CATEGORIES: the own properties of the object literal
EVENT_CATEGORIES ==
    [ k \in { "session.created", "session.updated" } |-> "session" ]
    @@ [ k \in { "error" } |-> "error" ]
    @@ [ k \in { "conversation.created", "conversation.item.created",
                 "conversation.item.retrieved",
                 "conversation.item.input_audio_transcription.delta",
                 "conversation.item.input_audio_transcription.completed" } |-> "conversation" ]
    @@ [ k \in { "input_audio_buffer.committed", "input_audio_buffer.cleared",
                 "input_audio_buffer.speech_started",
                 "input_audio_buffer.speech_stopped" } |-> "audio_buffer" ]
    @@ [ k \in { "response.created", "response.done", "response.cancelled" } |->
            "response_lifecycle" ]
    @@ [ k \in { "response.output_item.added", "response.output_item.done" } |->
            "response_output" ]
    @@ [ k \in { "response.content_part.added", "response.content_part.done" } |->
            "response_content" ]
    @@ [ k \in { "response.audio.delta", "response.audio.done",
                 "response.audio_transcript.delta", "response.audio_transcript.done" } |->
            "response_audio" ]
    @@ [ k \in { "response.text.delta", "response.text.done" } |-> "response_text" ]
    @@ [ k \in { "response.function_call_arguments.delta",
                 "response.function_call_arguments.done" } |-> "function_call" ]
    @@ [ k \in { "rate_limits.updated" } |-> "rate_limits" ]

\* the properties an object literal inherits from Object.prototype
ObjectPrototypeKeys ==
    { "constructor", "toString", "toLocaleString", "valueOf", "hasOwnProperty",
      "isPrototypeOf", "propertyIsEnumerable", "__proto__", "__defineGetter__",
      "__defineSetter__", "__lookupGetter__", "__lookupSetter__" }

\* a string value, and a function or object found on the prototype
JsText(text) == [typeof |-> "string", text |-> text]
JsInherited(key) ==
    [typeof |-> IF key = "__proto__" THEN "object" ELSE "function", inheritedAs |-> key]

\* EVENT_CATEGORIES[eventType]: <<value>>, or <<>> for undefined; the lookup
\* goes on to the prototype when the object has no such property of its own
CategoryLookup(eventType) ==
    IF eventType \in DOMAIN EVENT_CATEGORIES THEN <<JsText(EVENT_CATEGORIES[eventType])>>
    ELSE IF eventType \in ObjectPrototypeKeys THEN <<JsInherited(eventType)>>
    ELSE <<>>

\* getEventCategory(eventType): EVENT_CATEGORIES[eventType] || "unknown";
\* every value the lookup can give is truthy
getEventCategory(eventType) ==
    IF CategoryLookup(eventType) # <<>> THEN CategoryLookup(eventType)[1]
    ELSE JsText("unknown")

----------------------------------------------------------------------------
(* lib/group-events.ts: aggregateDeltaEvents *)

\* mutant: the last entry of DELTA_EVENT_TYPES is never looked at
isDeltaEventFirstFour(type) ==
    \E i \in 1..(Len(DELTA_EVENT_TYPES) - 1) : DELTA_EVENT_TYPES[i] = type

isDeltaEvent(type) == \E i \in 1..Len(DELTA_EVENT_TYPES) : DELTA_EVENT_TYPES[i] = type

\* the DeltaGroup literal that starts a new run
NewDeltaGroup(event) ==
    [ kind |-> "delta_group",
      eventType |-> event.event.type,
      events |-> <<event>>,
      firstLineNumber |-> event.lineNumber,
      lastLineNumber |-> event.lineNumber ]

\* mutant: the run grows but lastLineNumber is not updated
ContinueKeepsLastLine(group, event) ==
    [group EXCEPT !.events = Append(@, event)]

\* currentGroup.events.push(event); currentGroup.lastLineNumber = event.lineNumber
ContinueDeltaGroup(group, event) ==
    [group EXCEPT !.events = Append(@, event), !.lastLineNumber = event.lineNumber]

\* if (currentGroup) result.push(currentGroup)
PushGroup(res, group) == IF group # Null THEN Append(res, group) ELSE res

\* one iteration of the for-loop over st = [result, currentGroup]
AggStep(st, event) ==
    IF isDeltaEvent(event.event.type)
    THEN IF st.currentGroup # Null /\ st.currentGroup.eventType = event.event.type
         THEN [st EXCEPT !.currentGroup = ContinueDeltaGroup(@, event)]
         ELSE [ result |-> PushGroup(st.result, st.currentGroup),
                currentGroup |-> NewDeltaGroup(event) ]
    ELSE [ result |-> Append(PushGroup(st.result, st.currentGroup), event),
           currentGroup |-> Null ]

RECURSIVE AggLoop(_, _, _)
AggLoop(evs, i, st) ==
    IF i > Len(evs) THEN st ELSE AggLoop(evs, i + 1, AggStep(st, evs[i]))

\* mutant: the final group is not flushed after the loop
aggregateNoFinalFlush(evs) ==
    AggLoop(evs, 1, [result |-> <<>>, currentGroup |-> Null]).result

aggregateDeltaEvents(evs) ==
    LET st == AggLoop(evs, 1, [result |-> <<>>, currentGroup |-> Null])
    IN  PushGroup(st.result, st.currentGroup)

----------------------------------------------------------------------------
(* lib/group-events.ts: groupEvents *)

\* mutant: the marker does not copy the timestamp
PhaseMarkerNoTimestamp(type, event) ==
    [kind |-> "phase", type |-> type, lineNumber |-> event.lineNumber]

\* { kind: "phase", type, timestamp: event.timestamp, lineNumber: event.lineNumber }
PhaseMarker(type, event) ==
    CopyKey([kind |-> "phase", type |-> type, lineNumber |-> event.lineNumber],
            "timestamp", event, "timestamp")

\* { kind: "standalone", event }
Standalone(event) == [kind |-> "standalone", event |-> event]

\* mutant: the id is read from the event itself instead of its response object
ResponseIdOfEvent(event) ==
    IF Has(event.event, "id") THEN <<event.event.id>> ELSE <<>>

\* responseData?.id of event.event.response
ResponseIdOf(event) ==
    IF Has(event.event, "response") /\ Has(event.event.response, "id")
    THEN <<event.event.response.id>> ELSE <<>>

\* the ResponseCycle literal opened on response.created
NewCycle(event) ==
    LET c == [kind |-> "response_cycle", startEvent |-> event, items |-> <<>>]
        id == ResponseIdOf(event)
    IN  IF id # <<>> THEN With(c, "responseId", id[1]) ELSE c

\* mutant: usage is extracted whatever the type of the terminating event
WithTokenUsageAnyEnd(cycle, event) ==
    IF Has(event.event, "response") /\ Has(event.event.response, "usage")
    THEN LET usage == event.event.response.usage
         IN  With(cycle, "tokenUsage",
                  [ input |-> OrZero(usage, "input_tokens"),
                    output |-> OrZero(usage, "output_tokens"),
                    total |-> OrZero(usage, "total_tokens") ])
    ELSE cycle

\* the tokenUsage assignment guarded by eventType === "response.done" and if (usage)
WithTokenUsage(cycle, event) ==
    IF /\ event.event.type = "response.done"
       /\ Has(event.event, "response")
       /\ Has(event.event.response, "usage")
    THEN LET usage == event.event.response.usage
         IN  With(cycle, "tokenUsage",
                  [ input |-> OrZero(usage, "input_tokens"),
                    output |-> OrZero(usage, "output_tokens"),
                    total |-> OrZero(usage, "total_tokens") ])
    ELSE cycle

\* currentCycle.endEvent = event, then the token-usage extraction
CloseCycle(cycle, event) == WithTokenUsage(With(cycle, "endEvent", event), event)

\* mutant: flushCycle marks the last buffered event as the end event
FlushedResultEndsWithLast(res, cycle, buffer) ==
    IF cycle # Null
    THEN Append(res, With(With(cycle, "endEvent", buffer[Len(buffer)]),
                          "items", aggregateDeltaEvents(buffer)))
    ELSE res

\* flushCycle(): the value of result afterwards
FlushedResult(res, cycle, buffer) ==
    IF cycle # Null
    THEN Append(res, With(cycle, "items", aggregateDeltaEvents(buffer)))
    ELSE res

\* mutant: flushCycle does not reset cycleEvents
FlushedBufferKept(cycle, buffer) == buffer

\* flushCycle(): the value of cycleEvents afterwards
FlushedBuffer(cycle, buffer) == IF cycle # Null THEN <<>> ELSE buffer

\* Physical line number of the i-th event of the session handed to groupEvents.
\* Line numbers are strictly increasing but not contiguous (rejected lines
\* consume a number), so they differ from array positions.
LineNumberOf(i) == 2 * i + 1

\* Lines carry a timestamp prefix or not; here every line whose number is
\* 1 modulo 4 comes without one.
TimestampOf(n) == IF n % 4 = 1 THEN <<>> ELSE <<"T" \o ToString(n)>>

UsageFull == [input_tokens |-> 10, output_tokens |-> 20, total_tokens |-> 30]
UsagePartial == [input_tokens |-> 10]

\* event payloads (event.event) the model feeds to groupEvents
InputPayloads ==
    { [type |-> SPEECH_START],
      [type |-> RESPONSE_START],
      [type |-> RESPONSE_START, response |-> [id |-> "resp_1"]],
      [type |-> "response.done"],
      [type |-> "response.done", response |-> [id |-> "resp_1"]],
      [type |-> "response.done", response |-> [id |-> "resp_2", usage |-> UsageFull]],
      [type |-> "response.done", response |-> [usage |-> UsagePartial]],
      [type |-> "response.cancelled"],
      [type |-> "response.cancelled", response |-> [usage |-> UsageFull]],
      [type |-> FUNCTION_CALL],
      [type |-> "response.text.delta"],
      [type |-> "response.audio.delta"],
      [type |-> "response.text.done"] }

\* the ParsedLogLine at position i with payload p
LogLine(p, i) ==
    LET n == LineNumberOf(i)
        e == [event |-> p, lineNumber |-> n]
    IN  IF TimestampOf(n) # <<>> THEN With(e, "timestamp", TimestampOf(n)[1]) ELSE e

\* the loop has another element to take
MoreEvents == ~returned /\ Len(events) < MaxEvents

\* mutant: speech start emits its marker without flushing the open cycle
SpeechStartKeepsCycle ==
    /\ ~returned /\ Len(events) < MaxEvents
    /\ \E p \in InputPayloads :
         LET event == LogLine(p, Len(events) + 1) IN
         /\ p.type = SPEECH_START
         /\ events' = Append(events, event)
         /\ result' = result \o <<PhaseMarker("speech", event), Standalone(event)>>
         /\ currentCycle' = currentCycle
         /\ cycleEvents' = cycleEvents
    /\ UNCHANGED <<returned, aggVars, parseVars, lineVars, audioVars, restVars>>

\* if (eventType === PHASE_EVENTS.SPEECH_START) { ... continue; }
SpeechStart ==
    /\ MoreEvents
    /\ \E p \in InputPayloads :
         LET event == LogLine(p, Len(events) + 1) IN
         /\ p.type = SPEECH_START
         /\ events' = Append(events, event)
         /\ result' = FlushedResult(result, currentCycle, cycleEvents)
                        \o <<PhaseMarker("speech", event), Standalone(event)>>
         /\ currentCycle' = Null
         /\ cycleEvents' = FlushedBuffer(currentCycle, cycleEvents)
    /\ UNCHANGED <<returned, aggVars, parseVars, lineVars, audioVars, restVars>>

\* mutant: the response marker is pushed before the open cycle is flushed
ResponseStartMarkerFirst ==
    /\ MoreEvents
    /\ \E p \in InputPayloads :
         LET event == LogLine(p, Len(events) + 1) IN
         /\ p.type # SPEECH_START
         /\ p.type = RESPONSE_START
         /\ events' = Append(events, event)
         /\ result' = FlushedResult(Append(result, PhaseMarker("response", event)),
                                    currentCycle, cycleEvents)
         /\ currentCycle' = NewCycle(event)
         /\ cycleEvents' = Append(FlushedBuffer(currentCycle, cycleEvents), event)
    /\ UNCHANGED <<returned, aggVars, parseVars, lineVars, audioVars, restVars>>

\* if (eventType === PHASE_EVENTS.RESPONSE_START) { ... continue; }
ResponseStart ==
    /\ MoreEvents
    /\ \E p \in InputPayloads :
         LET event == LogLine(p, Len(events) + 1) IN
         /\ p.type # SPEECH_START
         /\ p.type = RESPONSE_START
         /\ events' = Append(events, event)
         /\ result' = Append(FlushedResult(result, currentCycle, cycleEvents),
                             PhaseMarker("response", event))
         /\ currentCycle' = NewCycle(event)
         /\ cycleEvents' = Append(FlushedBuffer(currentCycle, cycleEvents), event)
    /\ UNCHANGED <<returned, aggVars, parseVars, lineVars, audioVars, restVars>>

\* mutant: a terminator closes the open cycle only when it carries the cycle's
\* response id, and is buffered like a regular event otherwise
ResponseEndMatchingId ==
    /\ ~returned /\ Len(events) < MaxEvents
    /\ \E p \in InputPayloads :
         LET event == LogLine(p, Len(events) + 1) IN
         /\ p.type \notin {SPEECH_START, RESPONSE_START}
         /\ p.type \in {"response.done", "response.cancelled"}
         /\ events' = Append(events, event)
         /\ IF currentCycle # Null
            THEN IF ResponseIdOf(event) = ResponseIdOf(currentCycle.startEvent)
                 THEN LET closed == CloseCycle(currentCycle, event)
                          buffer == Append(cycleEvents, event)
                      IN  /\ result' = FlushedResult(result, closed, buffer)
                          /\ currentCycle' = Null
                          /\ cycleEvents' = FlushedBuffer(closed, buffer)
                 ELSE /\ cycleEvents' = Append(cycleEvents, event)
                      /\ UNCHANGED <<result, currentCycle>>
            ELSE /\ result' = Append(result, Standalone(event))
                 /\ UNCHANGED <<currentCycle, cycleEvents>>
    /\ UNCHANGED <<returned, aggVars, parseVars, lineVars, audioVars, restVars>>

\* if (eventType === "response.done" || eventType === "response.cancelled") { ... continue; }
ResponseEnd ==
    /\ MoreEvents
    /\ \E p \in InputPayloads :
         LET event == LogLine(p, Len(events) + 1) IN
         /\ p.type \notin {SPEECH_START, RESPONSE_START}
         /\ p.type \in {"response.done", "response.cancelled"}
         /\ events' = Append(events, event)
         /\ IF currentCycle # Null
            THEN LET closed == CloseCycle(currentCycle, event)
                     buffer == Append(cycleEvents, event)
                 IN  /\ result' = FlushedResult(result, closed, buffer)
                     /\ currentCycle' = Null
                     /\ cycleEvents' = FlushedBuffer(closed, buffer)
            ELSE /\ result' = Append(result, Standalone(event))
                 /\ UNCHANGED <<currentCycle, cycleEvents>>
    /\ UNCHANGED <<returned, aggVars, parseVars, lineVars, audioVars, restVars>>

\* mutant: the function-call marker is emitted inside an open cycle as well
FunctionCallAlwaysMarks ==
    /\ ~returned /\ Len(events) < MaxEvents
    /\ \E p \in InputPayloads :
         LET event == LogLine(p, Len(events) + 1) IN
         /\ p.type = FUNCTION_CALL
         /\ events' = Append(events, event)
         /\ IF currentCycle # Null
            THEN /\ cycleEvents' = Append(cycleEvents, event)
                 /\ result' = Append(result, PhaseMarker("function_call", event))
                 /\ UNCHANGED currentCycle
            ELSE /\ result' = result \o <<PhaseMarker("function_call", event), Standalone(event)>>
                 /\ UNCHANGED <<currentCycle, cycleEvents>>
    /\ UNCHANGED <<returned, aggVars, parseVars, lineVars, audioVars, restVars>>

\* if (eventType === PHASE_EVENTS.FUNCTION_CALL) { ... continue; }
FunctionCall ==
    /\ MoreEvents
    /\ \E p \in InputPayloads :
         LET event == LogLine(p, Len(events) + 1) IN
         /\ p.type \notin {SPEECH_START, RESPONSE_START, "response.done", "response.cancelled"}
         /\ p.type = FUNCTION_CALL
         /\ events' = Append(events, event)
         /\ IF currentCycle # Null
            THEN /\ cycleEvents' = Append(cycleEvents, event)
                 /\ UNCHANGED <<result, currentCycle>>
            ELSE /\ result' = result \o <<PhaseMarker("function_call", event), Standalone(event)>>
                 /\ UNCHANGED <<currentCycle, cycleEvents>>
    /\ UNCHANGED <<returned, aggVars, parseVars, lineVars, audioVars, restVars>>

\* the rest of the loop body: regular event
RegularEvent ==
    /\ MoreEvents
    /\ \E p \in InputPayloads :
         LET event == LogLine(p, Len(events) + 1) IN
         /\ p.type \notin {SPEECH_START, RESPONSE_START, "response.done",
                           "response.cancelled", FUNCTION_CALL}
         /\ events' = Append(events, event)
         /\ IF currentCycle # Null
            THEN /\ cycleEvents' = Append(cycleEvents, event)
                 /\ UNCHANGED <<result, currentCycle>>
            ELSE /\ result' = Append(result, Standalone(event))
                 /\ UNCHANGED <<currentCycle, cycleEvents>>
    /\ UNCHANGED <<returned, aggVars, parseVars, lineVars, audioVars, restVars>>

\* mutant: the loop ends and result is returned without the final flushCycle()
ReturnWithoutFlush ==
    /\ ~returned
    /\ returned' = TRUE
    /\ UNCHANGED <<events, result, currentCycle, cycleEvents, aggVars, parseVars, lineVars, audioVars, restVars>>

\* end of the array: flushCycle(); return result
Return ==
    /\ ~returned
    /\ returned' = TRUE
    /\ result' = FlushedResult(result, currentCycle, cycleEvents)
    /\ currentCycle' = Null
    /\ cycleEvents' = FlushedBuffer(currentCycle, cycleEvents)
    /\ UNCHANGED <<events, aggVars, parseVars, lineVars, audioVars, restVars>>

----------------------------------------------------------------------------
(* lib/group-events.ts: getDeltaGroupStats *)

\* mutant: the transcript is preferred to the delta
TranscriptOrDelta(payload) ==
    IF Has(payload, "transcript") /\ payload.transcript # "" THEN payload.transcript
    ELSE IF Has(payload, "delta") /\ payload.delta # "" THEN payload.delta
    ELSE ""

\* delta || transcript || "": undefined and the empty string are falsy
DeltaOrTranscript(payload) ==
    IF Has(payload, "delta") /\ payload.delta # "" THEN payload.delta
    ELSE IF Has(payload, "transcript") /\ payload.transcript # "" THEN payload.transcript
    ELSE ""

\* group.events.map(...).join("")
RECURSIVE JoinedText(_)
JoinedText(members) ==
    IF members = <<>> THEN ""
    ELSE DeltaOrTranscript(Head(members).event) \o JoinedText(Tail(members))

\* getDeltaGroupStats(group)
getDeltaGroupStats(group) ==
    LET count == Len(group.events) IN
    IF \/ group.eventType = "response.audio_transcript.delta"
       \/ group.eventType = "response.text.delta"
       \/ group.eventType = "conversation.item.input_audio_transcription.delta"
    THEN [count |-> count, aggregatedText |-> JoinedText(group.events)]
    ELSE [count |-> count]

----------------------------------------------------------------------------
(* lib/parse-log.ts: parseLogLine *)

\* A line of text is a sequence of lexemes, each a maximal piece of text of one
\* of these classes:
\*   "ws"        whitespace
\*   "timestamp" text matching \d{4}-\d{2}-\d{2}T[\d:.]+Z?
\*   "tag"       text matching \[([a-f0-9-]+)\] (case-insensitive); text is the capture
\*   "source"    text matching \[(OPENAI|USER)\] (case-insensitive); text is the capture
\*   "json"      text JSON.parse accepts, value being what it returns
\*   "junk"      text JSON.parse rejects and none of the three patterns matches
Ws == [lex |-> "ws"]
Ts(text) == [lex |-> "timestamp", text |-> text]
Tag(text) == [lex |-> "tag", text |-> text]
Src(text) == [lex |-> "source", text |-> text]
Json(value) == [lex |-> "json", value |-> value]
Junk == [lex |-> "junk", text |-> "not json"]

\* the JSON value null
JsNull == [json |-> "null"]

RECURSIVE TrimStart(_)
TrimStart(text) ==
    IF text # <<>> /\ Head(text) = Ws THEN TrimStart(Tail(text)) ELSE text

RECURSIVE TrimEnd(_)
TrimEnd(text) ==
    IF text # <<>> /\ text[Len(text)] = Ws
    THEN TrimEnd(SubSeq(text, 1, Len(text) - 1)) ELSE text

\* mutant: the line is used as it came
TrimMissing(text) == text

\* line.trim()
Trim(text) == TrimEnd(TrimStart(text))

\* remaining.match(/^(<class>)\s*/): the capture, if any, and what is left
\* after slicing the match off
MatchPrefix(remaining, class) ==
    IF remaining # <<>> /\ Head(remaining).lex = class
    THEN [capture |-> <<Head(remaining).text>>, rest |-> TrimStart(Tail(remaining))]
    ELSE [capture |-> <<>>, rest |-> remaining]

\* sourceMatch[1].toUpperCase()
ToUpperCase(text) ==
    CASE text \in {"openai", "OpenAI", "OPENAI"} -> "OPENAI"
      [] text \in {"user", "User", "USER"} -> "USER"
      [] OTHER -> text

\* JSON.parse(jsonStr): <<value>>, or <<>> when it throws
JsonParse(jsonStr) ==
    LET t == Trim(jsonStr)
    IN  IF Len(t) = 1 /\ t[1].lex = "json" THEN <<t[1].value>> ELSE <<>>

\* mutant: the source tag is tried before the session tag
parseLogLineSourceFirst(line, lineNumber) ==
    LET trimmedLine == Trim(line)
        ts == MatchPrefix(trimmedLine, "timestamp")
        source == MatchPrefix(ts.rest, "source")
        uuid == MatchPrefix(source.rest, "tag")
        jsonStr == uuid.rest
        parsed == JsonParse(jsonStr)
        base == [event |-> parsed[1], rawLine |-> line, lineNumber |-> lineNumber]
        withTs == IF ts.capture # <<>> THEN With(base, "timestamp", ts.capture[1]) ELSE base
        withId == IF uuid.capture # <<>> THEN With(withTs, "sessionId", uuid.capture[1]) ELSE withTs
        withSrc == IF source.capture # <<>>
                   THEN With(withId, "source", ToUpperCase(source.capture[1])) ELSE withId
    IN  IF trimmedLine = <<>> THEN [value |-> Null, warned |-> <<>>]
        ELSE IF parsed = <<>>
        THEN [value |-> Null, warned |-> <<[lineNumber |-> lineNumber, text |-> jsonStr]>>]
        ELSE [value |-> withSrc, warned |-> <<>>]

\* parseLogLine(line, lineNumber): the value returned (Null for null) and the
\* console.warn calls made
parseLogLine(line, lineNumber) ==
    LET trimmedLine == Trim(line)
        ts == MatchPrefix(trimmedLine, "timestamp")
        uuid == MatchPrefix(ts.rest, "tag")
        source == MatchPrefix(uuid.rest, "source")
        jsonStr == source.rest
        parsed == JsonParse(jsonStr)
        base == [event |-> parsed[1], rawLine |-> line, lineNumber |-> lineNumber]
        withTs == IF ts.capture # <<>> THEN With(base, "timestamp", ts.capture[1]) ELSE base
        withId == IF uuid.capture # <<>> THEN With(withTs, "sessionId", uuid.capture[1]) ELSE withTs
        withSrc == IF source.capture # <<>>
                   THEN With(withId, "source", ToUpperCase(source.capture[1])) ELSE withId
    IN  IF trimmedLine = <<>> THEN [value |-> Null, warned |-> <<>>]
        ELSE IF parsed = <<>>
        THEN [value |-> Null, warned |-> <<[lineNumber |-> lineNumber, text |-> jsonStr]>>]
        ELSE [value |-> withSrc, warned |-> <<>>]

----------------------------------------------------------------------------
(* lib/parse-log.ts: parseLogFile *)

\* `session-${sessionCounter}`
SessionName(counter) == "session-" \o ToString(counter)

\* mutant: the loop index is passed as the line number
LineNumberZeroBased(i) == i

\* i + 1: the line number parseLogFile passes for lines[i], i counted from 0
LineNumber(i) == i + 1

\* the Session literal opened by a session.created line
NewSession(counter, parsed) ==
    LET base == [id |-> SessionName(counter), events |-> <<parsed>>]
        withTime == CopyKey(base, "startTime", parsed, "timestamp")
        sessionData == IF Has(parsed.event, "session") THEN parsed.event.session ELSE <<>>
    IN  CopyKey(CopyKey(CopyKey(withTime, "sessionId", sessionData, "id"),
                        "model", sessionData, "model"),
                "voice", sessionData, "voice")

\* mutant: the implicit session is numbered apart from the counter
ImplicitSessionOwnNumber(counter, parsed) ==
    CopyKey([id |-> SessionName(0), events |-> <<parsed>>],
            "startTime", parsed, "timestamp")

\* the Session literal of the implicit session
ImplicitSession(counter, parsed) ==
    CopyKey([id |-> SessionName(counter), events |-> <<parsed>>],
            "startTime", parsed, "timestamp")

\* mutant: the push goes to the first session instead of the current one
PushToFirstSession(all, index, parsed) ==
    [all EXCEPT ![1].events = Append(@, parsed)]

\* currentSession.events.push(parsed), currentSession being sessions[index]
PushToSession(all, index, parsed) ==
    [all EXCEPT ![index].events = Append(@, parsed)]

SessionCreatedEvent ==
    [ type |-> "session.created", event_id |-> "e1",
      session |-> [id |-> "sess_A", model |-> "gpt-x", voice |-> "alloy"] ]

\* the lines of text the model feeds to parseLogFile
InputLines ==
    { <<>>,
      <<Ws>>,
      <<Junk>>,
      <<Json(JsNull)>>,
      <<Ts("2024-01-15T10:30:00.000Z"), Ws, Tag("abc-123"), Ws, Src("OPENAI"), Ws,
        Json(SessionCreatedEvent)>>,
      <<Json([type |-> "session.created", event_id |-> "e2"])>>,
      <<Ts("2024-01-15T10:30:01.500Z"), Ws, Tag("abc-123"), Ws, Src("user"), Ws,
        Json([type |-> "response.created", event_id |-> "e3"])>>,
      <<Tag("def-456"), Json([type |-> "response.done", event_id |-> "e4"])>>,
      <<Ws, Json([type |-> "response.text.delta", event_id |-> "e5", delta |-> "Hi"]), Ws>> }

\* the loop has another line to take
MoreLines == parsePc = "loop" /\ Len(lines) < MaxLines

\* if (!parsed) continue
SkipLine ==
    /\ MoreLines
    /\ \E line \in InputLines :
         LET parsed == parseLogLine(line, LineNumber(Len(lines))) IN
         /\ parsed.value = Null
         /\ lines' = Append(lines, line)
         /\ warnings' = warnings \o parsed.warned
    /\ UNCHANGED <<sessions, currentSession, sessionCounter, parsePc, groupVars, aggVars, lineVars, audioVars, restVars>>

\* parsed.event.type with parsed.event === null: a TypeError leaves parseLogFile
TypeErrorThrown ==
    /\ MoreLines
    /\ \E line \in InputLines :
         LET parsed == parseLogLine(line, LineNumber(Len(lines))) IN
         /\ parsed.value # Null
         /\ parsed.value.event = JsNull
         /\ lines' = Append(lines, line)
         /\ warnings' = warnings \o parsed.warned
    /\ parsePc' = "thrown"
    /\ UNCHANGED <<sessions, currentSession, sessionCounter, groupVars, aggVars, lineVars, audioVars, restVars>>

\* if (parsed.event.type === "session.created") { ... }
OpenSession ==
    /\ MoreLines
    /\ \E line \in InputLines :
         LET parsed == parseLogLine(line, LineNumber(Len(lines))) IN
         /\ parsed.value # Null
         /\ parsed.value.event # JsNull
         /\ Has(parsed.value.event, "type")
         /\ parsed.value.event.type = "session.created"
         /\ lines' = Append(lines, line)
         /\ warnings' = warnings \o parsed.warned
         /\ sessionCounter' = sessionCounter + 1
         /\ sessions' = Append(sessions, NewSession(sessionCounter + 1, parsed.value))
         /\ currentSession' = Len(sessions) + 1
    /\ UNCHANGED <<parsePc, groupVars, aggVars, lineVars, audioVars, restVars>>

\* else if (currentSession) { currentSession.events.push(parsed) }
AppendLine ==
    /\ MoreLines
    /\ currentSession # 0
    /\ \E line \in InputLines :
         LET parsed == parseLogLine(line, LineNumber(Len(lines))) IN
         /\ parsed.value # Null
         /\ parsed.value.event # JsNull
         /\ ~(Has(parsed.value.event, "type") /\ parsed.value.event.type = "session.created")
         /\ lines' = Append(lines, line)
         /\ warnings' = warnings \o parsed.warned
         /\ sessions' = PushToSession(sessions, currentSession, parsed.value)
    /\ UNCHANGED <<currentSession, sessionCounter, parsePc, groupVars, aggVars, lineVars, audioVars, restVars>>

\* mutant: the implicit session is pushed but not made the current session
OpenImplicitSessionNotCurrent ==
    /\ parsePc = "loop" /\ Len(lines) < MaxLines
    /\ currentSession = 0
    /\ \E line \in InputLines :
         LET parsed == parseLogLine(line, LineNumber(Len(lines))) IN
         /\ parsed.value # Null
         /\ parsed.value.event # JsNull
         /\ ~(Has(parsed.value.event, "type") /\ parsed.value.event.type = "session.created")
         /\ lines' = Append(lines, line)
         /\ warnings' = warnings \o parsed.warned
         /\ sessionCounter' = sessionCounter + 1
         /\ sessions' = Append(sessions, ImplicitSession(sessionCounter + 1, parsed.value))
         /\ currentSession' = currentSession
    /\ UNCHANGED <<parsePc, groupVars, aggVars, lineVars, audioVars, restVars>>

\* else { sessionCounter++; currentSession = { ... }; sessions.push(currentSession) }
OpenImplicitSession ==
    /\ MoreLines
    /\ currentSession = 0
    /\ \E line \in InputLines :
         LET parsed == parseLogLine(line, LineNumber(Len(lines))) IN
         /\ parsed.value # Null
         /\ parsed.value.event # JsNull
         /\ ~(Has(parsed.value.event, "type") /\ parsed.value.event.type = "session.created")
         /\ lines' = Append(lines, line)
         /\ warnings' = warnings \o parsed.warned
         /\ sessionCounter' = sessionCounter + 1
         /\ sessions' = Append(sessions, ImplicitSession(sessionCounter + 1, parsed.value))
         /\ currentSession' = Len(sessions) + 1
    /\ UNCHANGED <<parsePc, groupVars, aggVars, lineVars, audioVars, restVars>>

\* return sessions: content.split() yields at least one line, so the loop has
\* run at least once
ParseReturn ==
    /\ parsePc = "loop"
    /\ Len(lines) >= 1
    /\ parsePc' = "returned"
    /\ UNCHANGED <<lines, sessions, currentSession, sessionCounter, warnings, groupVars, aggVars, lineVars, audioVars, restVars>>

----------------------------------------------------------------------------
(* parseLogFile and groupEvents as whole calls *)

\* mutant: sessionCounter goes on from where the last call left it
ParseLocalsCarried(left) ==
    [ sessions |-> <<>>, currentSession |-> 0,
      sessionCounter |-> IF left = <<>> THEN 0 ELSE left[Len(left)].sessionCounter,
      thrown |-> FALSE ]

\* const sessions = []; let currentSession = null; let sessionCounter = 0:
\* the locals a call of parseLogFile starts with, whatever earlier calls left
ParseLocals(left) ==
    [sessions |-> <<>>, currentSession |-> 0, sessionCounter |-> 0, thrown |-> FALSE]

\* one iteration of the for-loop of parseLogFile, i counted from 0
ParseStep(st, line, i) ==
    LET parsed == parseLogLine(line, LineNumber(i)).value IN
    IF st.thrown \/ parsed = Null THEN st
    ELSE IF parsed.event = JsNull THEN [st EXCEPT !.thrown = TRUE]
    ELSE IF Has(parsed.event, "type") /\ parsed.event.type = "session.created"
    THEN [st EXCEPT !.sessionCounter = @ + 1,
                    !.sessions = Append(@, NewSession(st.sessionCounter + 1, parsed)),
                    !.currentSession = Len(st.sessions) + 1]
    ELSE IF st.currentSession # 0
    THEN [st EXCEPT !.sessions = PushToSession(@, st.currentSession, parsed)]
    ELSE [st EXCEPT !.sessionCounter = @ + 1,
                    !.sessions = Append(@, ImplicitSession(st.sessionCounter + 1, parsed)),
                    !.currentSession = Len(st.sessions) + 1]

\* for (let i = 0; i < lines.length; i++) { ... }
RECURSIVE ParseLoop(_, _, _)
ParseLoop(text, i, st) ==
    IF i >= Len(text) THEN st ELSE ParseLoop(text, i + 1, ParseStep(st, text[i + 1], i))

\* const result = []; let currentCycle = null; let cycleEvents = []
GroupLocals == [result |-> <<>>, currentCycle |-> Null, cycleEvents |-> <<>>]

\* flushCycle() on the locals
Flushed(st) ==
    [ result |-> FlushedResult(st.result, st.currentCycle, st.cycleEvents),
      currentCycle |-> Null,
      cycleEvents |-> FlushedBuffer(st.currentCycle, st.cycleEvents) ]

\* one iteration of the for-loop of groupEvents
GroupStep(st, event) ==
    LET eventType == IF Has(event.event, "type") THEN event.event.type ELSE "" IN
    IF eventType = SPEECH_START
    THEN [Flushed(st) EXCEPT !.result = @ \o <<PhaseMarker("speech", event), Standalone(event)>>]
    ELSE IF eventType = RESPONSE_START
    THEN [Flushed(st) EXCEPT !.result = Append(@, PhaseMarker("response", event)),
                             !.currentCycle = NewCycle(event),
                             !.cycleEvents = Append(@, event)]
    ELSE IF eventType \in {"response.done", "response.cancelled"}
    THEN IF st.currentCycle # Null
         THEN Flushed([st EXCEPT !.currentCycle = CloseCycle(@, event),
                                 !.cycleEvents = Append(@, event)])
         ELSE [st EXCEPT !.result = Append(@, Standalone(event))]
    ELSE IF eventType = FUNCTION_CALL
    THEN IF st.currentCycle # Null
         THEN [st EXCEPT !.cycleEvents = Append(@, event)]
         ELSE [st EXCEPT !.result =
                  @ \o <<PhaseMarker("function_call", event), Standalone(event)>>]
    ELSE IF st.currentCycle # Null
    THEN [st EXCEPT !.cycleEvents = Append(@, event)]
    ELSE [st EXCEPT !.result = Append(@, Standalone(event))]

\* for (const event of events) { ... }
RECURSIVE GroupLoop(_, _, _)
GroupLoop(evs, i, st) ==
    IF i > Len(evs) THEN st ELSE GroupLoop(evs, i + 1, GroupStep(st, evs[i]))

\* groupEvents(events)
groupEvents(evs) == Flushed(GroupLoop(evs, 1, GroupLocals)).result

\* what the caller of parseLogFile followed by groupEvents on every session
\* sees, given the locals parseLogFile ended with
PipelineOutcome(st) ==
    IF st.thrown THEN Threw
    ELSE Returned([ sessions |-> st.sessions,
                    groups |-> [k \in 1..Len(st.sessions) |-> groupEvents(st.sessions[k].events)] ])

----------------------------------------------------------------------------
(* lib/audio-player.ts: decodeAudioDelta *)

\* A string is the sequence of its characters; a binary string and a
\* Uint8Array are the sequence of their bytes. A Float32Array element is the
\* fraction it holds in lowest terms, [num, den] with den a power of two: every
\* quotient of a 16-bit integer by 32768 is exactly representable in 32 bits.

\* the base64 alphabet, by value
Base64Chars ==
    << "A", "B", "C", "D", "E", "F", "G", "H", "I", "J", "K", "L", "M", "N", "O", "P",
       "Q", "R", "S", "T", "U", "V", "W", "X", "Y", "Z", "a", "b", "c", "d", "e", "f",
       "g", "h", "i", "j", "k", "l", "m", "n", "o", "p", "q", "r", "s", "t", "u", "v",
       "w", "x", "y", "z", "0", "1", "2", "3", "4", "5", "6", "7", "8", "9", "+", "/" >>

Base64Alphabet == { Base64Chars[i] : i \in 1..Len(Base64Chars) }

Base64Value(c) == CHOOSE v \in 0..63 : Base64Chars[v + 1] = c

AsciiWhitespace == { " ", "\t", "\n", "\r" }

\* atob, step 1: remove all ASCII whitespace
StripWhitespace(data) == SelectSeq(data, LAMBDA c : c \notin AsciiWhitespace)

\* atob, step 2: a length divisible by 4 loses one or two trailing "="
StripPadding(data) ==
    LET n == Len(data) IN
    IF n % 4 = 0 /\ n >= 1 /\ data[n] = "="
    THEN IF n >= 2 /\ data[n - 1] = "=" THEN SubSeq(data, 1, n - 2) ELSE SubSeq(data, 1, n - 1)
    ELSE data

\* atob, step 5: 6 bits a character, leftover bits of a partial group discarded
RECURSIVE Base64Bytes(_)
Base64Bytes(data) ==
    LET v(i) == Base64Value(data[i]) IN
    IF Len(data) >= 4
    THEN LET n == v(1) * 262144 + v(2) * 4096 + v(3) * 64 + v(4)
         IN  <<n \div 65536, (n \div 256) % 256, n % 256>> \o Base64Bytes(SubSeq(data, 5, Len(data)))
    ELSE IF Len(data) = 3
    THEN LET n == (v(1) * 4096 + v(2) * 64 + v(3)) \div 4 IN <<n \div 256, n % 256>>
    ELSE IF Len(data) = 2
    THEN <<(v(1) * 64 + v(2)) \div 16>>
    ELSE <<>>

\* mutant: characters outside the alphabet are dropped instead of rejected
atobSkippingInvalid(base64) ==
    LET data == SelectSeq(StripPadding(StripWhitespace(base64)), LAMBDA c : c \in Base64Alphabet)
    IN  IF Len(data) % 4 = 1 THEN <<>> ELSE <<Base64Bytes(data)>>

\* atob(base64): <<bytes>>, or <<>> when it throws InvalidCharacterError
atob(base64) ==
    LET data == StripPadding(StripWhitespace(base64))
    IN  IF Len(data) % 4 = 1 \/ \E i \in 1..Len(data) : data[i] \notin Base64Alphabet
        THEN <<>>
        ELSE <<Base64Bytes(data)>>

\* the value of a 16-bit pattern read as a signed integer
ToInt16(u) == IF u >= 32768 THEN u - 65536 ELSE u

\* mutant: the high byte is read first
Int16ArrayBigEndian(bytes) ==
    IF Len(bytes) % 2 # 0 THEN <<>>
    ELSE <<[i \in 1..(Len(bytes) \div 2) |-> ToInt16(256 * bytes[2 * i - 1] + bytes[2 * i])]>>

\* new Int16Array(bytes.buffer): <<elements>>, or <<>> when it throws
\* RangeError; elements are read in the byte order of the host, low byte first
\* on every host the application runs on
Int16Array(bytes) ==
    IF Len(bytes) % 2 # 0 THEN <<>>
    ELSE <<[i \in 1..(Len(bytes) \div 2) |-> ToInt16(bytes[2 * i - 1] + 256 * bytes[2 * i])]>>

\* the Float32Array element holding num / den
RECURSIVE Float32(_, _)
Float32(num, den) ==
    IF den > 1 /\ num % 2 = 0 THEN Float32(num \div 2, den \div 2)
    ELSE [num |-> num, den |-> den]

\* decodeAudioDelta(base64)
decodeAudioDelta(base64) ==
    LET binaryString == atob(base64) IN
    IF binaryString = <<>> THEN Threw
    ELSE LET int16Array == Int16Array(binaryString[1]) IN
         IF int16Array = <<>> THEN Threw
         ELSE Returned([i \in 1..Len(int16Array[1]) |-> Float32(int16Array[1][i], 32768)])

----------------------------------------------------------------------------
(* lib/audio-player.ts: combineAudioChunks *)

\* A Float32Array object is [id, data]: id tells one object from another, data
\* is the sequence of its elements.

\* new Float32Array(length): a new object, every element 0
NewFloat32Array(id, length) == [id |-> id, data |-> [i \in 1..length |-> Float32(0, 1)]]

\* an id no object of the array has
FreshId(chunkList) ==
    CHOOSE id \in 1..(Len(chunkList) + 1) : \A k \in 1..Len(chunkList) : chunkList[k].id # id

\* chunks.reduce((sum, chunk) => sum + chunk.length, 0)
RECURSIVE TotalLength(_)
TotalLength(chunkList) ==
    IF chunkList = <<>> THEN 0 ELSE Len(Head(chunkList).data) + TotalLength(Tail(chunkList))

\* combined.set(chunk, offset)
SetAt(combined, chunk, offset) ==
    [combined EXCEPT !.data =
        [i \in 1..Len(combined.data) |->
            IF i > offset /\ i <= offset + Len(chunk.data)
            THEN chunk.data[i - offset] ELSE combined.data[i]]]

\* for (const chunk of chunks) { combined.set(chunk, offset); offset += chunk.length }
RECURSIVE CombineLoop(_, _, _, _)
CombineLoop(chunkList, k, combined, offset) ==
    IF k > Len(chunkList) THEN combined
    ELSE CombineLoop(chunkList, k + 1, SetAt(combined, chunkList[k], offset),
                     offset + Len(chunkList[k].data))

\* mutant: a single chunk is copied into a new buffer like any other
combineAlwaysCopies(chunkList) ==
    [chunks |-> chunkList,
     value |-> CombineLoop(chunkList, 1, NewFloat32Array(FreshId(chunkList), TotalLength(chunkList)), 0)]

\* combineAudioChunks(chunks): the object returned, and the array as the call leaves it
combineAudioChunks(chunkList) ==
    [chunks |-> chunkList,
     value |-> IF Len(chunkList) = 0 THEN NewFloat32Array(FreshId(chunkList), 0)
               ELSE IF Len(chunkList) = 1 THEN chunkList[1]
               ELSE CombineLoop(chunkList, 1,
                                NewFloat32Array(FreshId(chunkList), TotalLength(chunkList)), 0)]

----------------------------------------------------------------------------
(* lib/audio-player.ts: extractAudioFromDeltaGroup *)

\* values a payload field can hold once JSON.parse has read it
JsString(chars) == [typeof |-> "string", chars |-> chars]
JsNumber(n) == [typeof |-> "number", value |-> n]

\* typeof delta === "string" && delta.length > 0, for delta = evt.event.delta
HasAudioDelta(evt) ==
    /\ Has(evt.event, "delta")
    /\ evt.event.delta.typeof = "string"
    /\ Len(evt.event.delta.chars) > 0

\* payloads of the events handed to extractAudioFromDeltaGroup: no delta, a
\* delta that is not a string, the empty string, whitespace alone, one sample
\* (bytes 00 40), two samples (bytes 00 40 00 C0), a character outside the
\* alphabet, an odd number of bytes (byte FF), and the one-sample text
\* without padding, cut to one byte, with padding in front, a character too long
AudioPayloads ==
    { [type |-> "response.audio.delta"],
      [type |-> "response.audio.delta", delta |-> JsNumber(5)],
      [type |-> "response.audio.delta", delta |-> JsString(<<>>)],
      [type |-> "response.audio.delta", delta |-> JsString(<<" ">>)],
      [type |-> "response.audio.delta", delta |-> JsString(<<"A", "E", "A", "=">>)],
      [type |-> "response.audio.delta", delta |-> JsString(<<"A", "E", "A", "A", "w", "A", "=", "=">>)],
      [type |-> "response.audio.delta", delta |-> JsString(<<"A", "!", "A", "A">>)],
      [type |-> "response.audio.delta", delta |-> JsString(<<"/", "w", "=", "=">>)],
      [type |-> "response.audio.delta", delta |-> JsString(<<"A", "E", "A">>)],
      [type |-> "response.audio.delta", delta |-> JsString(<<"A", "E">>)],
      [type |-> "response.audio.delta", delta |-> JsString(<<"=", "A", "E", "A", "=">>)],
      [type |-> "response.audio.delta", delta |-> JsString(<<"A", "E", "A", "A", "A">>)] }

\* the loop has another event to take
MoreAudioEvents == audioPc = "loop" /\ Len(audioEvents) < MaxAudioEvents

\* the delta fails the test of line 173: nothing is done with the event
SkipAudioEvent ==
    /\ MoreAudioEvents
    /\ \E payload \in AudioPayloads :
         LET evt == [event |-> payload] IN
         /\ ~HasAudioDelta(evt)
         /\ audioEvents' = Append(audioEvents, evt)
    /\ UNCHANGED <<chunks, audioWarnings, audioOut, audioPc,
                   groupVars, aggVars, parseVars, lineVars, decodeVars, combineVars, restVars>>

\* decodeAudioDelta returns: if (decoded.length > 0) chunks.push(decoded)
PushDecoded ==
    /\ MoreAudioEvents
    /\ \E payload \in AudioPayloads :
         LET evt == [event |-> payload] IN
         /\ HasAudioDelta(evt)
         /\ LET call == decodeAudioDelta(payload.delta.chars)
                decoded == [id |-> Len(audioEvents) + 1, data |-> call.value]
            IN  /\ ~call.threw
                /\ chunks' = IF Len(decoded.data) > 0 THEN Append(chunks, decoded) ELSE chunks
         /\ audioEvents' = Append(audioEvents, evt)
    /\ UNCHANGED <<audioWarnings, audioOut, audioPc,
                   groupVars, aggVars, parseVars, lineVars, decodeVars, combineVars, restVars>>

\* decodeAudioDelta throws: catch { console.warn("Failed to decode audio delta") }
WarnFailedDecode ==
    /\ MoreAudioEvents
    /\ \E payload \in AudioPayloads :
         LET evt == [event |-> payload] IN
         /\ HasAudioDelta(evt)
         /\ decodeAudioDelta(payload.delta.chars).threw
         /\ audioEvents' = Append(audioEvents, evt)
    /\ audioWarnings' = audioWarnings + 1
    /\ UNCHANGED <<chunks, audioOut, audioPc,
                   groupVars, aggVars, parseVars, lineVars, decodeVars, combineVars, restVars>>

\* mutant: an empty chunks array is combined like any other
ExtractReturnNeverNull ==
    /\ audioPc = "loop"
    /\ audioOut' = combineAudioChunks(chunks).value
    /\ chunks' = combineAudioChunks(chunks).chunks
    /\ audioPc' = "returned"
    /\ UNCHANGED <<audioEvents, audioWarnings,
                   groupVars, aggVars, parseVars, lineVars, decodeVars, combineVars, restVars>>

\* if (chunks.length === 0) return null; return combineAudioChunks(chunks)
ExtractReturn ==
    /\ audioPc = "loop"
    /\ audioOut' = IF Len(chunks) = 0 THEN Null ELSE combineAudioChunks(chunks).value
    /\ chunks' = IF Len(chunks) = 0 THEN chunks ELSE combineAudioChunks(chunks).chunks
    /\ audioPc' = "returned"
    /\ UNCHANGED <<audioEvents, audioWarnings,
                   groupVars, aggVars, parseVars, lineVars, decodeVars, combineVars, restVars>>

----------------------------------------------------------------------------
(* lib/audio-player.ts: createAudioPlayer *)

\* new AudioContext({ sampleRate }): a context begins suspended; the browser
\* sets it running later, when its autoplay policy allows or resume() asks
NewAudioContext == [state |-> "suspended", resumeCalled |-> FALSE]

\* getAudioContext(): the module's context, created at the first call
getAudioContext(ctx) == IF ctx = Null THEN NewAudioContext ELSE ctx

\* the controller createAudioPlayer returns, with the variables its closures
\* share: source (the index in nodes of the node referred to, 0 for null) and
\* isPlaying; audioLength is audioData.length and onEnded names the callback
\* it was given ("undefined" when none)
NewPlayer(audioLength, onEnded) ==
    [audioLength |-> audioLength, onEnded |-> onEnded, source |-> 0, isPlaying |-> FALSE]

\* what play, stop and onended read and write; threw tells that the call
\* ended with an exception
Playback ==
    [audioContext |-> audioContext, players |-> players, nodes |-> nodes, threw |-> FALSE]

\* const play = () => { ... }: createBuffer throws NotSupportedError for a
\* length of zero, before source is assigned
play(st, c) ==
    LET p == st.players[c]
        ctx == IF st.audioContext.state = "suspended"
               THEN [st.audioContext EXCEPT !.resumeCalled = TRUE]
               ELSE st.audioContext
        node == Len(st.nodes) + 1
    IN  IF p.isPlaying THEN st
        ELSE IF p.audioLength = 0 THEN [st EXCEPT !.audioContext = ctx, !.threw = TRUE]
        ELSE [st EXCEPT !.audioContext = ctx,
                        !.nodes = Append(@, [owner |-> c, state |-> "playing"]),
                        !.players[c] = [p EXCEPT !.source = node, !.isPlaying = TRUE]]

\* const stop = () => { ... }: source.stop() ends the node's playback, and the
\* node's ended event, with the handler play() gave it, is dispatched later
stop(st, c) ==
    LET p == st.players[c] IN
    IF p.source # 0
    THEN [st EXCEPT !.nodes[p.source].state = "stopped",
                    !.players[c] = [p EXCEPT !.source = 0, !.isPlaying = FALSE]]
    ELSE [st EXCEPT !.players[c] = [p EXCEPT !.isPlaying = FALSE]]

\* source.onended = () => { isPlaying = false; source = null; ... } of node n:
\* isPlaying and source are the variables of the controller that started n
onended(st, n) ==
    LET c == st.nodes[n].owner IN
    [st EXCEPT !.nodes[n].state = "ended",
               !.players[c] = [@ EXCEPT !.source = 0, !.isPlaying = FALSE]]

\* some caller calls play() of a controller
Play ==
    /\ Len(nodes) < MaxNodes
    /\ \E c \in 1..Len(players) :
         LET after == play(Playback, c) IN
         /\ audioContext' = after.audioContext
         /\ players' = after.players
         /\ nodes' = after.nodes
         /\ playOut' = IF after.threw THEN Threw ELSE Returned(Null)
    /\ UNCHANGED <<buttonVars, notPlayback>>

\* some caller calls stop() of a controller
Stop ==
    /\ \E c \in 1..Len(players) :
         LET after == stop(Playback, c) IN
         /\ players' = after.players
         /\ nodes' = after.nodes
    /\ UNCHANGED <<audioContext, playOut, buttonVars, notPlayback>>

\* the browser sets the suspended context running
ContextRuns ==
    /\ audioContext # Null
    /\ audioContext.state = "suspended"
    /\ audioContext' = [audioContext EXCEPT !.state = "running"]
    /\ UNCHANGED <<players, nodes, playOut, buttonVars, notPlayback>>

\* the ended event of a node is dispatched: of a node that played its buffer
\* to the end, which takes a running context, or of a node stop() was called
\* on; the handler runs and calls onEnded?.(), which for the button is
\* () => { setIsPlaying(false); playerRef.current = null; }
SourceEnded ==
    /\ \E n \in 1..Len(nodes) :
         LET after == onended(Playback, n)
             callback == players[nodes[n].owner].onEnded
         IN  /\ nodes[n].state \in {"playing", "stopped"}
             /\ nodes[n].state = "playing" => audioContext.state = "running"
             /\ players' = after.players
             /\ nodes' = after.nodes
             /\ IF callback = "handlePlay"
                THEN /\ isPlaying' = IF mounted THEN FALSE ELSE isPlaying
                     /\ playerRef' = 0
                ELSE UNCHANGED <<isPlaying, playerRef>>
    /\ UNCHANGED <<audioContext, playOut, audioDataRef, error, isLoading, mounted, notPlayback>>

----------------------------------------------------------------------------
(* components/AudioPlayButton.tsx: handlePlay *)

\* A click is handled to its end, and the state it set is rendered, before
\* the next click or ended event is handled, so handlePlay reads the isPlaying
\* that was set last.  The button is rendered while error is null and is
\* disabled while isLoading.

\* const handlePlay = useCallback(() => { ... }, [isPlaying])
Click ==
    /\ mounted /\ error = Null /\ ~isLoading
    /\ IF isPlaying /\ playerRef # 0
       THEN LET after == stop(Playback, playerRef) IN
            /\ players' = after.players
            /\ nodes' = after.nodes
            /\ playerRef' = 0
            /\ isPlaying' = FALSE
            /\ UNCHANGED <<audioContext, error>>
       ELSE IF audioDataRef = Null
       THEN /\ error' = [message |-> "No audio data"]
            /\ UNCHANGED <<audioContext, players, nodes, playerRef, isPlaying>>
       ELSE LET created == [Playback EXCEPT
                               !.audioContext = getAudioContext(audioContext),
                               !.players = Append(@, NewPlayer(audioDataRef.length, "handlePlay"))]
                player == Len(players) + 1
                after == play(created, player)
            IN  /\ Len(players) < MaxNodes
                /\ audioContext' = after.audioContext
                /\ players' = after.players
                /\ nodes' = after.nodes
                /\ playerRef' = player
                /\ IF after.threw
                   THEN error' = [message |-> "Playback failed"] /\ isPlaying' = isPlaying
                   ELSE error' = Null /\ isPlaying' = TRUE
    /\ isLoading' = FALSE
    /\ UNCHANGED <<playOut, audioDataRef, mounted, notPlayback>>

\* the cleanup of the last effect: if (playerRef.current) playerRef.current.stop()
Unmount ==
    /\ mounted
    /\ mounted' = FALSE
    /\ IF playerRef # 0
       THEN LET after == stop(Playback, playerRef) IN
            /\ players' = after.players
            /\ nodes' = after.nodes
       ELSE UNCHANGED <<players, nodes>>
    /\ UNCHANGED <<audioContext, playOut, isPlaying, playerRef, audioDataRef, error,
                   isLoading, notPlayback>>

----------------------------------------------------------------------------
(* aggregateDeltaEvents run on its own over a drawn buffer *)

\* event types of the buffers drawn for aggregateDeltaEvents:
\* the five delta types and one non-delta type
BufferTypes == {DELTA_EVENT_TYPES[i] : i \in 1..Len(DELTA_EVENT_TYPES)} \cup {"response.text.done"}

\* for (const event of events) { ... }: one iteration
AggIterate ==
    /\ ~aggReturned
    /\ Len(aggEvents) < MaxBuffer
    /\ \E t \in BufferTypes :
         LET event == LogLine([type |-> t], Len(aggEvents) + 1)
             st == AggStep([result |-> aggResult, currentGroup |-> currentGroup], event)
         IN  /\ aggEvents' = Append(aggEvents, event)
             /\ aggResult' = st.result
             /\ currentGroup' = st.currentGroup
    /\ UNCHANGED <<aggReturned, groupVars, parseVars, lineVars, audioVars, restVars>>

\* if (currentGroup) result.push(currentGroup); return result
AggReturn ==
    /\ ~aggReturned
    /\ aggReturned' = TRUE
    /\ aggResult' = PushGroup(aggResult, currentGroup)
    /\ UNCHANGED <<aggEvents, currentGroup, groupVars, parseVars, lineVars, audioVars, restVars>>

----------------------------------------------------------------------------
(* parseLogLine run on its own over a drawn line *)

\* prefixes a drawn line is built from
PrefixLexemes ==
    { Ts("2024-01-15T10:30:00.000Z"), Tag("abc-123"), Src("OPENAI"), Src("user") }

\* what follows the prefixes of a drawn line
Bodies ==
    { <<>>, <<Junk>>, <<Json([type |-> "response.created", event_id |-> "e1"])>> }

\* the prefixes, each followed by sep
RECURSIVE Spaced(_, _)
Spaced(prefixes, sep) ==
    IF prefixes = <<>> THEN <<>>
    ELSE <<Head(prefixes)>> \o sep \o Spaced(Tail(prefixes), sep)

\* lines handed to parseLogLine: up to MaxPrefixes prefixes in any order,
\* with or without whitespace after each, behind optional leading whitespace
DrawnLines ==
    { lead \o Spaced(prefixes, sep) \o body :
        lead \in {<<>>, <<Ws>>},
        prefixes \in UNION { [1..k -> PrefixLexemes] : k \in 0..MaxPrefixes },
        sep \in {<<>>, <<Ws>>},
        body \in Bodies }

\* line numbers handed to parseLogLine
DrawnLineNumbers == {1, 42}

\* parseLogLine(line, lineNumber)
DecodeLine ==
    /\ linePc = "call"
    /\ lineOut' = parseLogLine(lineIn, lineNo)
    /\ linePc' = "done"
    /\ UNCHANGED <<lineIn, lineNo, groupVars, aggVars, parseVars, audioVars, restVars>>

----------------------------------------------------------------------------
(* decodeAudioDelta run on its own over a drawn chunk *)

\* byte values of the PCM data drawn
ByteValues == {0, 64, 127, 128, 192, 255}

\* PCM data drawn: every byte sequence up to MaxBytes over ByteValues
DrawnBytes == UNION { [1..k -> ByteValues] : k \in 0..MaxBytes }

\* the padded base64 text of the bytes, as the sender of the log encodes them
RECURSIVE Btoa(_)
Btoa(bytes) ==
    LET c(v) == Base64Chars[v + 1] IN
    IF Len(bytes) >= 3
    THEN LET n == bytes[1] * 65536 + bytes[2] * 256 + bytes[3]
         IN  <<c(n \div 262144), c((n \div 4096) % 64), c((n \div 64) % 64), c(n % 64)>>
                \o Btoa(SubSeq(bytes, 4, Len(bytes)))
    ELSE IF Len(bytes) = 2
    THEN LET n == (bytes[1] * 256 + bytes[2]) * 4
         IN  <<c(n \div 4096), c((n \div 64) % 64), c(n % 64), "=">>
    ELSE IF Len(bytes) = 1
    THEN LET n == bytes[1] * 16 IN <<c(n \div 64), c(n % 64), "=", "=">>
    ELSE <<>>

\* the text without its padding
Unpadded(text) == SelectSeq(text, LAMBDA c : c # "=")

\* the text broken by a line feed after its first character and ended by a blank
Wrapped(text) ==
    IF text = <<>> THEN <<" ">>
    ELSE <<Head(text), "\n">> \o Tail(text) \o <<" ">>

\* texts that carry the bytes: padded, unpadded, with whitespace
Encodings(bytes) == { Btoa(bytes), Unpadded(Btoa(bytes)), Wrapped(Btoa(bytes)) }

\* texts that are damaged: a character outside the alphabet, padding in the
\* middle, a character too many
Damaged(bytes) ==
    { Btoa(bytes) \o <<"!">>, <<"=">> \o Btoa(bytes), Unpadded(Btoa(bytes)) \o <<"A">> }

\* chunks handed to decodeAudioDelta for the bytes
DrawnChunks(bytes) == Encodings(bytes) \cup Damaged(bytes)

\* decodeAudioDelta(base64)
DecodeChunk ==
    /\ decPc = "call"
    /\ decOut' = decodeAudioDelta(b64In)
    /\ decPc' = "done"
    /\ UNCHANGED <<pcmIn, b64In, groupVars, aggVars, parseVars, lineVars, extractVars, combineVars, restVars>>

----------------------------------------------------------------------------
(* combineAudioChunks run on its own over drawn buffers *)

\* contents of the buffers drawn
DrawnSamples ==
    { <<>>,
      <<Float32(0, 32768)>>,
      <<Float32(16384, 32768)>>,
      <<Float32(16384, 32768), Float32(-16384, 32768)>>,
      <<Float32(-32768, 32768), Float32(32767, 32768), Float32(-1, 32768)>> }

\* arrays handed to combineAudioChunks: up to MaxChunks distinct objects
DrawnBuffers ==
    UNION { { [k \in 1..n |-> [id |-> k, data |-> contents[k]]] :
                contents \in [1..n -> DrawnSamples] } : n \in 0..MaxChunks }

\* combineAudioChunks(chunks)
CombineChunks ==
    /\ combinePc = "call"
    /\ LET call == combineAudioChunks(combineIn) IN
          /\ combineIn' = call.chunks
          /\ combineOut' = call.value
    /\ combinePc' = "done"
    /\ UNCHANGED <<groupVars, aggVars, parseVars, lineVars, decodeVars, extractVars, restVars>>

----------------------------------------------------------------------------
(* getDeltaGroupStats run over a group built as aggregateDeltaEvents builds it *)

\* payloads of the members of a group of the type: neither field, a delta,
\* an empty delta beside a transcript, both fields
MemberPayloads(type) ==
    { [type |-> type],
      [type |-> type, delta |-> "He"],
      [type |-> type, delta |-> "llo"],
      [type |-> type, delta |-> "", transcript |-> "tr"],
      [type |-> type, delta |-> "a", transcript |-> "x"] }

\* currentGroup = { kind: "delta_group", ... }: a run starts
StartGroup ==
    /\ statsPc = "build"
    /\ statsGroup = Null
    /\ \E i \in 1..Len(DELTA_EVENT_TYPES) : \E payload \in MemberPayloads(DELTA_EVENT_TYPES[i]) :
         statsGroup' = NewDeltaGroup(LogLine(payload, 1))
    /\ UNCHANGED <<statsOut, statsPc, notStats>>

\* currentGroup.events.push(event): the run goes on
GrowGroup ==
    /\ statsPc = "build"
    /\ statsGroup # Null
    /\ Len(statsGroup.events) < MaxMembers
    /\ \E payload \in MemberPayloads(statsGroup.eventType) :
         statsGroup' = ContinueDeltaGroup(statsGroup, LogLine(payload, Len(statsGroup.events) + 1))
    /\ UNCHANGED <<statsOut, statsPc, notStats>>

\* getDeltaGroupStats(group)
CallStats ==
    /\ statsPc = "build"
    /\ statsGroup # Null
    /\ statsOut' = getDeltaGroupStats(statsGroup)
    /\ statsPc' = "done"
    /\ UNCHANGED <<statsGroup, notStats>>

----------------------------------------------------------------------------
(* The pipeline run again and again in one process *)

\* another line is typed
TypeLine ==
    /\ pipePc = "input"
    /\ Len(pipeText) < MaxPipeLines
    /\ \E line \in InputLines : pipeText' = Append(pipeText, line)
    /\ UNCHANGED <<pipeLeft, pipeRuns, pipePc, notPipe>>

\* parseLogFile is called on the text as it stands, once before the text is
\* finished; its result is dropped
ParseEarlier ==
    /\ pipePc = "input"
    /\ pipeText # <<>>
    /\ pipeLeft = <<>>
    /\ pipeLeft' = Append(pipeLeft, ParseLoop(pipeText, 0, ParseLocals(pipeLeft)))
    /\ UNCHANGED <<pipeText, pipeRuns, pipePc, notPipe>>

\* parseLogFile, then groupEvents on every session, on the finished text
RunPipeline ==
    /\ pipePc \in {"input", "once"}
    /\ pipeText # <<>>
    /\ LET st == ParseLoop(pipeText, 0, ParseLocals(pipeLeft)) IN
         /\ pipeLeft' = Append(pipeLeft, st)
         /\ pipeRuns' = Append(pipeRuns, PipelineOutcome(st))
    /\ pipePc' = IF pipePc = "input" THEN "once" ELSE "twice"
    /\ UNCHANGED <<pipeText, notPipe>>

----------------------------------------------------------------------------
(* getEventCategory run on its own over a drawn type *)

\* type strings handed to getEventCategory: the keys of the table, strings
\* that are not keys, and the names every object inherits
DrawnTypes ==
    DOMAIN EVENT_CATEGORIES
    \cup { "", "foo", "session", "session.deleted", "response", "response.created ",
           "Response.Created", "error.fatal", "rate_limits", "unknown",
           "conversation.item.deleted", "input_audio_buffer.append" }
    \cup ObjectPrototypeKeys

\* getEventCategory(eventType)
Categorize ==
    /\ catPc = "call"
    /\ catOut' = getEventCategory(catIn)
    /\ catPc' = "done"
    /\ UNCHANGED <<catIn, notCategory>>

GroupIdle ==
    /\ events = <<>>
    /\ result = <<>>
    /\ currentCycle = Null
    /\ cycleEvents = <<>>
    /\ returned = FALSE

AggIdle ==
    /\ aggEvents = <<>>
    /\ aggResult = <<>>
    /\ currentGroup = Null
    /\ aggReturned = FALSE

ParseIdle ==
    /\ lines = <<>>
    /\ sessions = <<>>
    /\ currentSession = 0
    /\ sessionCounter = 0
    /\ warnings = <<>>
    /\ parsePc = "loop"

LineIdle ==
    /\ lineIn = <<>>
    /\ lineNo = 1
    /\ lineOut = Null
    /\ linePc = "call"

DecodeIdle ==
    /\ pcmIn = <<>>
    /\ b64In = <<>>
    /\ decOut = Null
    /\ decPc = "call"

ExtractIdle ==
    /\ audioEvents = <<>>
    /\ chunks = <<>>
    /\ audioWarnings = 0
    /\ audioOut = Null
    /\ audioPc = "loop"

CombineIdle ==
    /\ combineIn = <<>>
    /\ combineOut = Null
    /\ combinePc = "call"

AudioIdle == DecodeIdle /\ ExtractIdle /\ CombineIdle

StatsIdle ==
    /\ statsGroup = Null
    /\ statsOut = Null
    /\ statsPc = "build"

PipeIdle ==
    /\ pipeText = <<>>
    /\ pipeLeft = <<>>
    /\ pipeRuns = <<>>
    /\ pipePc = "input"

CategoryIdle ==
    /\ catIn = ""
    /\ catOut = Null
    /\ catPc = "call"

PlayerIdle ==
    /\ audioContext = Null
    /\ players = <<>>
    /\ nodes = <<>>
    /\ playOut = Null

ButtonIdle ==
    /\ isPlaying = FALSE
    /\ playerRef = 0
    /\ audioDataRef = Null
    /\ error = Null
    /\ isLoading = FALSE
    /\ mounted = FALSE

PlaybackIdle == PlayerIdle /\ ButtonIdle

RestIdle == StatsIdle /\ PipeIdle /\ CategoryIdle /\ PlaybackIdle

Init == GroupIdle /\ AggIdle /\ ParseIdle /\ LineIdle /\ AudioIdle /\ RestIdle

Next ==
    \/ SpeechStart
    \/ ResponseStart
    \/ ResponseEnd
    \/ FunctionCall
    \/ RegularEvent
    \/ Return

Spec == Init /\ [][Next]_vars

InitAgg == GroupIdle /\ AggIdle /\ ParseIdle /\ LineIdle /\ AudioIdle /\ RestIdle

NextAgg ==
    \/ AggIterate
    \/ AggReturn

SpecAgg == InitAgg /\ [][NextAgg]_vars

InitParse == GroupIdle /\ AggIdle /\ ParseIdle /\ LineIdle /\ AudioIdle /\ RestIdle

NextParse ==
    \/ SkipLine
    \/ TypeErrorThrown
    \/ OpenSession
    \/ AppendLine
    \/ OpenImplicitSession
    \/ ParseReturn

SpecParse == InitParse /\ [][NextParse]_vars

InitLine ==
    /\ GroupIdle /\ AggIdle /\ ParseIdle /\ AudioIdle /\ RestIdle
    /\ lineIn \in DrawnLines
    /\ lineNo \in DrawnLineNumbers
    /\ lineOut = Null
    /\ linePc = "call"

NextLine == DecodeLine

SpecLine == InitLine /\ [][NextLine]_vars

InitDecode ==
    /\ GroupIdle /\ AggIdle /\ ParseIdle /\ LineIdle /\ ExtractIdle /\ CombineIdle /\ RestIdle
    /\ pcmIn \in DrawnBytes
    /\ b64In \in DrawnChunks(pcmIn)
    /\ decOut = Null
    /\ decPc = "call"

NextDecode == DecodeChunk

SpecDecode == InitDecode /\ [][NextDecode]_vars

InitCombine ==
    /\ GroupIdle /\ AggIdle /\ ParseIdle /\ LineIdle /\ DecodeIdle /\ ExtractIdle /\ RestIdle
    /\ combineIn \in DrawnBuffers
    /\ combineOut = Null
    /\ combinePc = "call"

NextCombine == CombineChunks

SpecCombine == InitCombine /\ [][NextCombine]_vars

InitStats == GroupIdle /\ AggIdle /\ ParseIdle /\ LineIdle /\ AudioIdle /\ RestIdle

NextStats ==
    \/ StartGroup
    \/ GrowGroup
    \/ CallStats

SpecStats == InitStats /\ [][NextStats]_vars

InitPipe == GroupIdle /\ AggIdle /\ ParseIdle /\ LineIdle /\ AudioIdle /\ RestIdle

NextPipe ==
    \/ TypeLine
    \/ ParseEarlier
    \/ RunPipeline

SpecPipe == InitPipe /\ [][NextPipe]_vars

InitCategory ==
    /\ GroupIdle /\ AggIdle /\ ParseIdle /\ LineIdle /\ AudioIdle /\ StatsIdle /\ PipeIdle
    /\ PlaybackIdle
    /\ catIn \in DrawnTypes
    /\ catOut = Null
    /\ catPc = "call"

NextCategory == Categorize

SpecCategory == InitCategory /\ [][NextCategory]_vars

\* a controller right after createAudioPlayer(audioData) returned it; the
\* module's context may be older than the controller and running already
InitPlayer ==
    /\ GroupIdle /\ AggIdle /\ ParseIdle /\ LineIdle /\ AudioIdle
    /\ StatsIdle /\ PipeIdle /\ CategoryIdle /\ ButtonIdle
    /\ audioContext \in {NewAudioContext, [NewAudioContext EXCEPT !.state = "running"]}
    /\ \E audioLength \in 0..MaxAudioLength :
          players = <<NewPlayer(audioLength, "undefined")>>
    /\ nodes = <<>>
    /\ playOut = Null

NextPlayer ==
    \/ Play
    \/ Stop
    \/ ContextRuns
    \/ SourceEnded

SpecPlayer == InitPlayer /\ [][NextPlayer]_vars

\* the button after its first effect ran: extractAudioFromDeltaGroup gave
\* audio of at least one sample, or null and the error was set
InitButton ==
    /\ GroupIdle /\ AggIdle /\ ParseIdle /\ LineIdle /\ AudioIdle
    /\ StatsIdle /\ PipeIdle /\ CategoryIdle /\ PlayerIdle
    /\ isPlaying = FALSE
    /\ playerRef = 0
    /\ isLoading = FALSE
    /\ mounted = TRUE
    /\ \/ \E audioLength \in 1..MaxAudioLength :
             audioDataRef = [length |-> audioLength] /\ error = Null
       \/ audioDataRef = Null /\ error = [message |-> "No audio data"]

NextButton ==
    \/ Click
    \/ ContextRuns
    \/ SourceEnded
    \/ Unmount

SpecButton == InitButton /\ [][NextButton]_vars

InitExtract == GroupIdle /\ AggIdle /\ ParseIdle /\ LineIdle /\ AudioIdle /\ RestIdle

NextExtract ==
    \/ SkipAudioEvent
    \/ PushDecoded
    \/ WarnFailedDecode
    \/ ExtractReturn

SpecExtract == InitExtract /\ [][NextExtract]_vars

----------------------------------------------------------------------------
(* Vocabulary of the properties *)

IsDeltaGroup(item) == Has(item, "kind") /\ item.kind = "delta_group"

IsCycle(group) == group.kind = "response_cycle"

\* the five delta type strings of lib/types.ts, as a set
FiveDeltaTypes ==
    { "response.audio.delta",
      "response.audio_transcript.delta",
      "response.text.delta",
      "response.function_call_arguments.delta",
      "conversation.item.input_audio_transcription.delta" }

EndTypes == {"response.done", "response.cancelled"}

\* items expanded in order: a delta group into its members
RECURSIVE ExpandItems(_)
ExpandItems(items) ==
    IF items = <<>> THEN <<>>
    ELSE (IF IsDeltaGroup(Head(items)) THEN Head(items).events ELSE <<Head(items)>>)
         \o ExpandItems(Tail(items))

\* the output expanded in order: cycles into their items, phase markers into nothing
RECURSIVE ExpandGroups(_)
ExpandGroups(groups) ==
    IF groups = <<>> THEN <<>>
    ELSE LET g == Head(groups)
         IN  (CASE g.kind = "standalone" -> <<g.event>>
                [] g.kind = "response_cycle" -> ExpandItems(g.items)
                [] OTHER -> <<>>)
             \o ExpandGroups(Tail(groups))

Last(seq) == seq[Len(seq)]

\* this step of groupEvents consumed one event, Taken
Consumed == Len(events') = Len(events) + 1
Taken == events'[Len(events')]

\* the elements a step appended to result
Emitted == SubSeq(result', Len(result) + 1, Len(result'))
OnlyAppends == Len(result') >= Len(result) /\ SubSeq(result', 1, Len(result)) = result

\* m is the phase marker of the given type for event e
IsMarkerFor(m, type, e) ==
    /\ m.kind = "phase"
    /\ m.type = type
    /\ m.lineNumber = e.lineNumber
    /\ Has(m, "timestamp") = Has(e, "timestamp")
    /\ Has(e, "timestamp") => m.timestamp = e.timestamp

\* c is the open cycle `open` with buffer `buffer`, emitted without a terminator
IsUnterminated(c, open, buffer) ==
    /\ IsCycle(c)
    /\ c.startEvent = open.startEvent
    /\ ~Has(c, "endEvent")
    /\ ExpandItems(c.items) = buffer

CyclesOf(groups) == {i \in 1..Len(groups) : IsCycle(groups[i])}

----------------------------------------------------------------------------
(* Properties of groupEvents *)

\* C1: every input event appears exactly once in the output (as a standalone
\* event, a direct cycle item or a member of a delta group inside a cycle), and
\* expanding the output in order reproduces the input; while the loop runs the
\* events not yet in the output are exactly the pending buffer.
C1_EveryEventOnce ==
    /\ ExpandGroups(result) \o cycleEvents = events
    /\ returned => ExpandGroups(result) = events
    /\ \A i, j \in 1..Len(events) : i # j => events[i] # events[j]

C1_Witness ==
    /\ returned
    /\ Len(events) >= 4
    /\ \E i \in 1..Len(result) : result[i].kind = "standalone"
    /\ \E i \in CyclesOf(result) :
         \E k \in 1..Len(result[i].items) :
            /\ IsDeltaGroup(result[i].items[k])
            /\ Len(result[i].items[k].events) >= 2

\* C3: every emitted cycle starts with a response.created event; an end event,
\* when set, is a response.done or response.cancelled event that occurs later in
\* the input than the start event.
C3_CycleMarkers ==
    \A i \in CyclesOf(result) :
       LET c == result[i] IN
       /\ c.startEvent.event.type = "response.created"
       /\ Has(c, "endEvent") =>
            /\ c.endEvent.event.type \in EndTypes
            /\ \E a, b \in 1..Len(events) :
                  a < b /\ events[a] = c.startEvent /\ events[b] = c.endEvent

C3_Witness ==
    \E i \in CyclesOf(result) :
       /\ Has(result[i], "endEvent")
       /\ result[i].endEvent.event.type = "response.cancelled"
       /\ Len(result[i].items) >= 3

\* C6: a response.done / response.cancelled event seen while a cycle is open is
\* appended to the buffer, becomes the end event, and the cycle is emitted at that
\* step, leaving the slot empty; seen while no cycle is open it is emitted as a
\* standalone event and no cycle is created.
C6_ResponseEnd ==
    [][ (Consumed /\ Taken.event.type \in EndTypes) =>
          IF currentCycle # Null
          THEN /\ OnlyAppends
               /\ Len(Emitted) = 1
               /\ IsCycle(Emitted[1])
               /\ Emitted[1].startEvent = currentCycle.startEvent
               /\ Has(Emitted[1], "endEvent")
               /\ Emitted[1].endEvent = Taken
               /\ ExpandItems(Emitted[1].items) = Append(cycleEvents, Taken)
               /\ currentCycle' = Null
               /\ cycleEvents' = <<>>
          ELSE /\ result' = Append(result, [kind |-> "standalone", event |-> Taken])
               /\ currentCycle' = Null
               /\ cycleEvents' = cycleEvents ]_vars

C6_Witness ==
    /\ \E i \in 1..Len(result) :
          result[i].kind = "standalone" /\ result[i].event.event.type \in EndTypes
    /\ \E i \in CyclesOf(result) : Has(result[i], "endEvent")
    /\ currentCycle = Null

\* C7: a cycle has token usage exactly when it was closed by a response.done event
\* whose response object carries a usage object; input, output and total are then
\* the usage's input_tokens, output_tokens and total_tokens, 0 when missing.
\* Cycles closed by response.cancelled or emitted without a terminator have none.
C7_TokenUsage ==
    \A i \in CyclesOf(result) :
       LET c == result[i]
           field(u, k) == IF k \in DOMAIN u THEN u[k] ELSE 0
           closedByDoneWithUsage ==
               /\ Has(c, "endEvent")
               /\ c.endEvent.event.type = "response.done"
               /\ Has(c.endEvent.event, "response")
               /\ Has(c.endEvent.event.response, "usage")
       IN  /\ Has(c, "tokenUsage") = closedByDoneWithUsage
           /\ closedByDoneWithUsage =>
                LET u == c.endEvent.event.response.usage IN
                /\ c.tokenUsage.input = field(u, "input_tokens")
                /\ c.tokenUsage.output = field(u, "output_tokens")
                /\ c.tokenUsage.total = field(u, "total_tokens")

C7_Witness ==
    /\ \E i \in CyclesOf(result) :
          /\ Has(result[i], "tokenUsage")
          /\ result[i].tokenUsage = [input |-> 10, output |-> 0, total |-> 0]
    /\ \E i \in CyclesOf(result) :
          /\ Has(result[i], "endEvent")
          /\ result[i].endEvent.event.type = "response.cancelled"
          /\ Has(result[i].endEvent.event, "response")
          /\ ~Has(result[i], "tokenUsage")

\* C8: on a speech-start event the open cycle (if any) is emitted without an end
\* event, then a speech phase marker with the event's timestamp and line number,
\* then the event as a standalone event, nothing between them; no cycle is open
\* afterwards, and while no cycle is open every event other than response.created
\* is emitted standalone and opens no cycle.
C8_SpeechStart ==
    [][ /\ (Consumed /\ Taken.event.type = "input_audio_buffer.speech_started") =>
             /\ OnlyAppends
             /\ currentCycle' = Null
             /\ cycleEvents' = <<>>
             /\ Len(Emitted) = (IF currentCycle # Null THEN 3 ELSE 2)
             /\ currentCycle # Null => IsUnterminated(Emitted[1], currentCycle, cycleEvents)
             /\ IsMarkerFor(Emitted[Len(Emitted) - 1], "speech", Taken)
             /\ Last(Emitted) = [kind |-> "standalone", event |-> Taken]
        /\ (Consumed /\ currentCycle = Null /\ Taken.event.type # "response.created") =>
             /\ OnlyAppends
             /\ currentCycle' = Null
             /\ Last(result') = [kind |-> "standalone", event |-> Taken]
             /\ \A k \in 1..Len(Emitted) : ~IsCycle(Emitted[k]) ]_vars

C8_Witness ==
    \E i \in 1..Len(result) :
       /\ i + 3 <= Len(result)
       /\ IsCycle(result[i]) /\ ~Has(result[i], "endEvent") /\ Len(result[i].items) >= 2
       /\ result[i + 1].kind = "phase" /\ result[i + 1].type = "speech"
       /\ Has(result[i + 1], "timestamp")
       /\ result[i + 2].kind = "standalone"
       /\ result[i + 3].kind = "standalone"
       /\ result[i + 3].event.event.type = "response.text.delta"

\* C9: on a response.created event the open cycle (if any) is emitted first, then
\* a response phase marker; a new cycle is opened whose response id is the id of
\* the payload's response object (unset when absent) and whose buffer holds just
\* that event, so the event is the start event and the first item of the cycle.
C9_ResponseStart ==
    [][ /\ (Consumed /\ Taken.event.type = "response.created") =>
             /\ OnlyAppends
             /\ Len(Emitted) = (IF currentCycle # Null THEN 2 ELSE 1)
             /\ currentCycle # Null => IsUnterminated(Emitted[1], currentCycle, cycleEvents)
             /\ IsMarkerFor(Last(Emitted), "response", Taken)
             /\ currentCycle' # Null
             /\ currentCycle'.startEvent = Taken
             /\ IF Has(Taken.event, "response") /\ Has(Taken.event.response, "id")
                THEN /\ Has(currentCycle', "responseId")
                     /\ currentCycle'.responseId = Taken.event.response.id
                ELSE ~Has(currentCycle', "responseId")
             /\ cycleEvents' = <<Taken>>
        /\ \A i \in CyclesOf(result') :
             /\ Len(result'[i].items) >= 1
             /\ result'[i].items[1] = result'[i].startEvent ]_vars

C9_Witness ==
    /\ currentCycle # Null
    /\ Has(currentCycle, "responseId")
    /\ Len(result) >= 3
    /\ result[Len(result)].kind = "phase" /\ result[Len(result)].type = "response"
    /\ IsCycle(result[Len(result) - 1])
    /\ ~Has(result[Len(result) - 1], "responseId")
    /\ Len(result[Len(result) - 1].items) >= 2

WellAggregated(items) ==
    /\ \A k \in 1..Len(items) :
          IF IsDeltaGroup(items[k])
          THEN /\ items[k].eventType \in FiveDeltaTypes
               /\ Len(items[k].events) >= 1
               /\ \A m \in 1..Len(items[k].events) :
                     items[k].events[m].event.type = items[k].eventType
          ELSE items[k].event.type \notin FiveDeltaTypes
    /\ \A k \in 1..(Len(items) - 1) :
          ~ /\ IsDeltaGroup(items[k])
            /\ IsDeltaGroup(items[k + 1])
            /\ items[k].eventType = items[k + 1].eventType

\* C11: when the input ends while a cycle is open, the return step emits that
\* cycle as the last element of the output, without an end event, its items being
\* the delta aggregation of every event from its response.created to the end of
\* the input; with no cycle open the return step emits nothing.
C11_EndOfInputFlush ==
    [][ (~returned /\ returned') =>
          /\ events' = events
          /\ currentCycle' = Null
          /\ cycleEvents' = <<>>
          /\ IF currentCycle # Null
             THEN /\ OnlyAppends
                  /\ Len(Emitted) = 1
                  /\ IsUnterminated(Emitted[1], currentCycle, cycleEvents)
                  /\ WellAggregated(Emitted[1].items)
                  /\ \E k \in 1..Len(events) :
                        /\ events[k] = currentCycle.startEvent
                        /\ ExpandItems(Emitted[1].items) = SubSeq(events, k, Len(events))
             ELSE result' = result ]_vars

C11_Witness ==
    /\ returned
    /\ Len(result) >= 2
    /\ IsCycle(Last(result))
    /\ ~Has(Last(result), "endEvent")
    /\ Len(Last(result).items) = 3
    /\ IsDeltaGroup(Last(result).items[3])
    /\ Len(ExpandItems(Last(result).items)) = 4

----------------------------------------------------------------------------
(* Properties of aggregateDeltaEvents *)

TypesOf(evs) == [i \in 1..Len(evs) |-> evs[i].event.type]

FiveTextDeltasThenDone ==
    << "response.text.delta", "response.text.delta", "response.text.delta",
       "response.text.delta", "response.text.delta", "response.text.done" >>

\* C4: the returned items are the maximal-run aggregation of the buffer: every
\* event of one of the five delta types lies inside a delta group, every other
\* event is a direct item, the items expand to the buffer, and no two adjacent
\* items are delta groups of the same type; five response.text.delta events and a
\* response.text.done give one group of five followed by the done event.
C4_MaximalRuns ==
    aggReturned =>
       /\ \A k \in 1..Len(aggResult) :
            IF IsDeltaGroup(aggResult[k])
            THEN \A m \in 1..Len(aggResult[k].events) :
                    aggResult[k].events[m].event.type \in FiveDeltaTypes
            ELSE aggResult[k].event.type \notin FiveDeltaTypes
       /\ ExpandItems(aggResult) = aggEvents
       /\ \A k \in 1..(Len(aggResult) - 1) :
            ~ /\ IsDeltaGroup(aggResult[k])
              /\ IsDeltaGroup(aggResult[k + 1])
              /\ aggResult[k].eventType = aggResult[k + 1].eventType
       /\ TypesOf(aggEvents) = FiveTextDeltasThenDone =>
            /\ Len(aggResult) = 2
            /\ IsDeltaGroup(aggResult[1])
            /\ aggResult[1].events = SubSeq(aggEvents, 1, 5)
            /\ aggResult[2] = aggEvents[6]

C4_Witness ==
    /\ aggReturned
    /\ TypesOf(aggEvents) = FiveTextDeltasThenDone
    /\ Len(aggResult) = 2
    /\ Len(aggResult[1].events) = 5

\* C5: every delta group produced is non-empty, its members all have the group's
\* event type, they are a contiguous slice of the buffer in order, and its first
\* and last line numbers are those of its first and last member.
C5_DeltaGroupShape ==
    \A k \in 1..Len(aggResult) :
       IsDeltaGroup(aggResult[k]) =>
          LET g == aggResult[k] IN
          /\ Len(g.events) >= 1
          /\ \A m \in 1..Len(g.events) : g.events[m].event.type = g.eventType
          /\ \E a, b \in 1..Len(aggEvents) : g.events = SubSeq(aggEvents, a, b)
          /\ g.firstLineNumber = g.events[1].lineNumber
          /\ g.lastLineNumber = g.events[Len(g.events)].lineNumber

C5_Witness ==
    /\ aggReturned
    /\ Len(aggResult) >= 3
    /\ IsDeltaGroup(aggResult[2])
    /\ Len(aggResult[2].events) >= 3
    /\ aggResult[2].firstLineNumber < aggResult[2].lastLineNumber
    /\ IsDeltaGroup(aggResult[3])

----------------------------------------------------------------------------
(* Properties of parseLogFile *)

\* the lines whose loop iteration has run to its end
Completed == IF parsePc = "thrown" THEN Len(lines) - 1 ELSE Len(lines)

\* the places <<session, position>> holding an event of physical line i
Placements(i) ==
    { sk \in (1..Len(sessions)) \X (1..Len(lines)) :
         /\ sk[2] <= Len(sessions[sk[1]].events)
         /\ sessions[sk[1]].events[sk[2]].lineNumber = i }

\* C2: every line that decodes is a member of exactly one session (a rejected line
\* of none), every member is the decoded line at the 1-based physical position its
\* line number names, and within each session line numbers strictly increase.
C2_SessionsPartitionLines ==
    /\ \A i \in 1..Completed :
          Cardinality(Placements(i)) =
             (IF parseLogLine(lines[i], i).value # Null THEN 1 ELSE 0)
    /\ \A s \in 1..Len(sessions) :
          /\ \A k \in 1..Len(sessions[s].events) :
                LET e == sessions[s].events[k] IN
                /\ e.lineNumber \in 1..Completed
                /\ e.rawLine = lines[e.lineNumber]
          /\ \A k \in 1..(Len(sessions[s].events) - 1) :
                sessions[s].events[k].lineNumber < sessions[s].events[k + 1].lineNumber

C2_Witness ==
    /\ parsePc = "returned"
    /\ Len(sessions) >= 2
    /\ \E i \in 1..Len(lines) : parseLogLine(lines[i], i).value = Null
    /\ \E s \in 1..Len(sessions) :
          \E k \in 1..(Len(sessions[s].events) - 1) :
             sessions[s].events[k + 1].lineNumber > sessions[s].events[k].lineNumber + 1

\* line i, whose iteration has completed, was decoded by parseLogLine
DecodedLine(i) == parseLogLine(lines[i], i).value # Null

\* line i, whose iteration has completed, decoded to a session.created event
CreatedLine(i) ==
    /\ DecodedLine(i)
    /\ Has(parseLogLine(lines[i], i).value.event, "type")
    /\ parseLogLine(lines[i], i).value.event.type = "session.created"

CreatedLines == {i \in 1..Completed : CreatedLine(i)}

\* the first session.created line after line i, or one past the last line
NextCreated(i) ==
    IF \E j \in CreatedLines : j > i
    THEN CHOOSE j \in CreatedLines : j > i /\ \A h \in CreatedLines : h > i => j <= h
    ELSE Completed + 1

\* the decoded lines among lines a..b
DecodedIn(a, b) == {j \in a..b : j <= Completed /\ DecodedLine(j)}

\* the line numbers of the events of session s
LinesOf(s) == {sessions[s].events[k].lineNumber : k \in 1..Len(sessions[s].events)}

StartsWithCreated(s) ==
    /\ Len(sessions[s].events) >= 1
    /\ Has(sessions[s].events[1].event, "type")
    /\ sessions[s].events[1].event.type = "session.created"

\* C12: each decoded session.created line opens exactly one session, whose first
\* event is that line and whose events are the decoded lines from it up to, not
\* including, the next session.created line; any session but the first starts
\* with a session.created line.  With session.created at lines 1 and 5 only there
\* are two sessions, owning the decoded lines of 1-4 and of 5-n.
C12_SessionsDelimitedByCreated ==
    /\ \A i \in CreatedLines :
          /\ Cardinality({s \in 1..Len(sessions) :
                            /\ Len(sessions[s].events) >= 1
                            /\ sessions[s].events[1].lineNumber = i}) = 1
          /\ \E s \in 1..Len(sessions) :
                /\ StartsWithCreated(s)
                /\ sessions[s].events[1].lineNumber = i
                /\ LinesOf(s) = DecodedIn(i, NextCreated(i) - 1)
    /\ \A s \in 2..Len(sessions) : StartsWithCreated(s)
    /\ Cardinality({s \in 1..Len(sessions) : StartsWithCreated(s)}) = Cardinality(CreatedLines)
    /\ (CreatedLines = {1, 5}) =>
          /\ Len(sessions) = 2
          /\ LinesOf(1) = DecodedIn(1, 4)
          /\ LinesOf(2) = DecodedIn(5, Completed)

C12_Witness ==
    /\ parsePc = "returned"
    /\ CreatedLines = {1, 5}
    /\ Len(sessions) = 2
    /\ LinesOf(1) = {1, 2, 3, 4}
    /\ LinesOf(2) = {5}

\* the decoded lines that precede the first session.created line
OrphanLines == DecodedIn(1, NextCreated(0) - 1)

\* C13: the decoded lines preceding the first session.created line are the events
\* of exactly one implicit session, the first of the output, opened on the first of
\* them with that line's timestamp as start time and without model or voice; no
\* other session starts with anything but a session.created line, and the implicit
\* session holds no line from the first session.created line on.
C13_ImplicitSession ==
    /\ Cardinality({s \in 1..Len(sessions) : ~StartsWithCreated(s)}) <= 1
    /\ \A s \in 1..Len(sessions) : ~StartsWithCreated(s) => s = 1
    /\ IF OrphanLines # {}
       THEN /\ Len(sessions) >= 1
            /\ ~StartsWithCreated(1)
            /\ LinesOf(1) = OrphanLines
            /\ \A j \in OrphanLines : sessions[1].events[1].lineNumber <= j
            /\ LET first == parseLogLine(lines[sessions[1].events[1].lineNumber],
                                         sessions[1].events[1].lineNumber).value
               IN  /\ Has(sessions[1], "startTime") = Has(first, "timestamp")
                   /\ Has(first, "timestamp") => sessions[1].startTime = first.timestamp
            /\ ~Has(sessions[1], "model")
            /\ ~Has(sessions[1], "voice")
       ELSE \A s \in 1..Len(sessions) : StartsWithCreated(s)

C13_Witness ==
    /\ parsePc = "returned"
    /\ Len(sessions) >= 2
    /\ ~StartsWithCreated(1)
    /\ Len(sessions[1].events) >= 2
    /\ Has(sessions[1], "startTime")
    /\ Len(sessions[2].events) >= 2
    /\ Has(sessions[2], "model")

\* C14: no line content halts the parse: parseLogFile never leaves its loop by
\* an exception, and a line that parseLogLine rejects is in no session.
C14_NoLineHaltsParse ==
    /\ parsePc # "thrown"
    /\ \A i \in 1..Len(lines) :
          parseLogLine(lines[i], i).value = Null => Placements(i) = {}

----------------------------------------------------------------------------
(* Properties of parseLogLine *)

\* the line without its whitespace
Tokens(line) == SelectSeq(line, LAMBDA x : x.lex # "ws")

\* the tokens left once an optional leading token of the class is taken
Past(tokens, class) ==
    IF tokens # <<>> /\ tokens[1].lex = class THEN Tail(tokens) ELSE tokens

\* the token of the class at the head, if there is one
Leading(tokens, class) ==
    IF tokens # <<>> /\ tokens[1].lex = class THEN <<tokens[1].text>> ELSE <<>>

PastTimestamp(line) == Past(Tokens(line), "timestamp")
PastTag(line) == Past(PastTimestamp(line), "tag")
PastSource(line) == Past(PastTag(line), "source")

\* the line is [timestamp] [session tag] [source tag] payload, each prefix optional
MatchesGrammar(line) == Len(PastSource(line)) = 1 /\ PastSource(line)[1].lex = "json"

\* the field holds the capture, or is unset when there is none
FieldIs(value, key, capture) ==
    IF capture = <<>> THEN ~Has(value, key) ELSE Has(value, key) /\ value[key] = capture[1]

UpperCased(capture) ==
    IF capture = <<>> THEN <<>>
    ELSE IF capture[1] \in {"OPENAI", "openai"} THEN <<"OPENAI">> ELSE <<"USER">>

\* C15: parseLogLine tries the timestamp, then the session tag, then the source
\* tag, each independently: a prefix that is present where it is tried is
\* extracted (the source tag upper-cased), one that is not leaves its field
\* unset and consumes nothing, so that a line of the grammar decodes to exactly
\* the prefixes it carries and its payload, and on any other non-blank line the
\* text handed to the JSON decoder is what the three attempts left
C15_PrefixOrder ==
    linePc = "done" =>
        LET value == lineOut.value
            toks == Tokens(lineIn)
        IN  IF toks = <<>> THEN value = Null /\ lineOut.warned = <<>>
            ELSE IF MatchesGrammar(lineIn)
            THEN /\ value # Null
                 /\ lineOut.warned = <<>>
                 /\ FieldIs(value, "timestamp", Leading(toks, "timestamp"))
                 /\ FieldIs(value, "sessionId", Leading(PastTimestamp(lineIn), "tag"))
                 /\ FieldIs(value, "source", UpperCased(Leading(PastTag(lineIn), "source")))
                 /\ value.event = PastSource(lineIn)[1].value
                 /\ value.rawLine = lineIn
                 /\ value.lineNumber = lineNo
            ELSE /\ value = Null
                 /\ Len(lineOut.warned) = 1
                 /\ lineOut.warned[1].lineNumber = lineNo
                 /\ Tokens(lineOut.warned[1].text) = PastSource(lineIn)

\* a decoded line carrying a session tag and a lower-case source tag but no timestamp
C15_Witness ==
    /\ linePc = "done"
    /\ lineOut.value # Null
    /\ ~Has(lineOut.value, "timestamp")
    /\ Has(lineOut.value, "sessionId")
    /\ Has(lineOut.value, "source") /\ lineOut.value.source = "USER"
    /\ \E i \in 1..Len(lineIn) : lineIn[i] = Src("user")

\* C16: when parseLogFile takes a blank or whitespace-only line, no warning is
\* recorded and no session is created or changed; when it takes a non-blank
\* line whose payload does not decode, exactly one warning is recorded, for
\* that line's number, and again no session is created or changed; a line that
\* decodes records no warning
C16_BlankSilentUndecodableWarned ==
    [][ lines' # lines =>
          LET n == Len(lines')
              line == lines'[n]
          IN  /\ SubSeq(lines', 1, n - 1) = lines
              /\ Tokens(line) = <<>> =>
                    /\ warnings' = warnings
                    /\ sessions' = sessions
                    /\ currentSession' = currentSession
                    /\ sessionCounter' = sessionCounter
              /\ (Tokens(line) # <<>> /\ ~MatchesGrammar(line)) =>
                    /\ Len(warnings') = Len(warnings) + 1
                    /\ SubSeq(warnings', 1, Len(warnings)) = warnings
                    /\ Last(warnings').lineNumber = n
                    /\ sessions' = sessions
                    /\ currentSession' = currentSession
                    /\ sessionCounter' = sessionCounter
              /\ MatchesGrammar(line) => warnings' = warnings ]_vars

\* a whitespace-only line and an undecodable line were taken after a session
\* was opened, and one warning was recorded, for the undecodable line
C16_Witness ==
    /\ parsePc = "returned"
    /\ Len(sessions) = 1
    /\ \E i, j \in 2..Len(lines) :
          /\ lines[i] = <<Ws>>
          /\ lines[j] = <<Junk>>
          /\ Placements(1) # {}
          /\ Len(warnings) = 1
          /\ warnings[1].lineNumber = j

----------------------------------------------------------------------------
(* Properties of decodeAudioDelta *)

\* the chunk carries the bytes it was made from
IsEncoding == b64In \in Encodings(pcmIn)

\* the signed 16-bit little-endian integer at sample i of the bytes
Int16LittleEndian(bytes, i) ==
    LET u == bytes[2 * i - 1] + 256 * bytes[2 * i]
    IN  ((u + 32768) % 65536) - 32768

\* C19: a chunk encoding 2n bytes decodes to n samples, sample i being the
\* signed 16-bit little-endian integer of bytes 2i and 2i+1 divided by 32768,
\* so within -1.0 .. 1.0; the chunk encoding the samples 16384 and -16384
\* decodes to 0.5 and -0.5
C19_SamplesLittleEndian ==
    (decPc = "done" /\ IsEncoding /\ Len(pcmIn) % 2 = 0) =>
        LET bytes == pcmIn IN
        /\ ~decOut.threw
        /\ Len(decOut.value) = Len(bytes) \div 2
        /\ \A i \in 1..Len(decOut.value) :
              LET sample == decOut.value[i] IN
              /\ sample.den \in {2 ^ k : k \in 0..15}
              /\ sample.num * 32768 = Int16LittleEndian(bytes, i) * sample.den
              /\ sample.den = 1 \/ sample.num % 2 = 1
              /\ -sample.den <= sample.num /\ sample.num <= sample.den
        /\ bytes = <<0, 64, 0, 192>> =>
              decOut.value = <<[num |-> 1, den |-> 2], [num |-> -1, den |-> 2]>>

\* the unpadded, wrapped chunk of the samples 16384 and -16384 was decoded
C19_Witness ==
    /\ decPc = "done"
    /\ b64In = <<"A", "\n", "E", "A", "A", "w", "A", "=", "=", " ">>
    /\ ~decOut.threw
    /\ Len(decOut.value) = 2

----------------------------------------------------------------------------
(* Properties of combineAudioChunks *)

\* the number of samples in the first k buffers
RECURSIVE SamplesBefore(_, _)
SamplesBefore(buffers, k) ==
    IF k = 0 THEN 0 ELSE SamplesBefore(buffers, k - 1) + Len(buffers[k].data)

\* C20: combineAudioChunks returns a buffer whose length is the sum of the
\* chunk lengths and in which the samples of chunk k stand right after those
\* of the chunks before it; for an empty list the buffer has length 0, for a
\* single chunk it is that chunk itself; the call changes no input buffer
C20_Concatenation ==
    [][ (combinePc = "call" /\ combinePc' = "done") =>
          LET n == Len(combineIn) IN
          /\ combineIn' = combineIn
          /\ Len(combineOut'.data) = SamplesBefore(combineIn, n)
          /\ \A k \in 1..n : \A j \in 1..Len(combineIn[k].data) :
                combineOut'.data[SamplesBefore(combineIn, k - 1) + j] = combineIn[k].data[j]
          /\ n = 0 => Len(combineOut'.data) = 0
          /\ n = 1 => combineOut' = combineIn[1]
          /\ n > 1 => \A k \in 1..n : combineOut'.id # combineIn[k].id ]_vars

\* three buffers, the middle one empty, were combined into six samples
C20_Witness ==
    /\ combinePc = "done"
    /\ Len(combineIn) = 3
    /\ Len(combineIn[1].data) = 3
    /\ Len(combineIn[2].data) = 0
    /\ Len(combineIn[3].data) = 3
    /\ Len(combineOut.data) = 6

----------------------------------------------------------------------------
(* Properties of extractAudioFromDeltaGroup *)

\* event i carries a fragment: its delta is a non-empty string
IsFragment(i) ==
    LET payload == audioEvents[i].event IN
    /\ "delta" \in DOMAIN payload
    /\ payload.delta.typeof = "string"
    /\ payload.delta.chars # <<>>

Fragments == { i \in 1..Len(audioEvents) : IsFragment(i) }

\* what decoding the fragment of event i on its own gives
DecodeOf(i) == decodeAudioDelta(audioEvents[i].event.delta.chars)

FailedFragments == { i \in Fragments : DecodeOf(i).threw }

\* the decoded buffers of the first i events, one after another
RECURSIVE DecodedUpTo(_)
DecodedUpTo(i) ==
    IF i = 0 THEN <<>>
    ELSE IF i \in Fragments \ FailedFragments
    THEN DecodedUpTo(i - 1) \o DecodeOf(i).value
    ELSE DecodedUpTo(i - 1)

AllDecoded == DecodedUpTo(Len(audioEvents))

\* a fragment that fails stops nothing, every failure is warned of once, and
\* what is returned, if anything, is the decoded buffers in event order
SkipsAndConcatenates ==
    /\ audioPc \in {"loop", "returned"}
    /\ audioWarnings = Cardinality(FailedFragments)
    /\ (audioPc = "returned" /\ audioOut # Null) => audioOut.data = AllDecoded

\* C17 as stated: extractAudioFromDeltaGroup decodes exactly the events whose
\* delta is a non-empty string, skips the fragments that fail, returns the
\* decoded buffers concatenated in event order, never throws, and returns null
\* exactly when there was no fragment or every fragment failed to decode
C17_NullIffEmptyOrAllFailed ==
    /\ SkipsAndConcatenates
    /\ audioPc = "returned" =>
          (audioOut = Null <=> (Fragments = {} \/ Fragments = FailedFragments))

\* C17, amended: as above, but null is returned exactly when no fragment
\* decoded to at least one sample
C17_NullIffNoSamples ==
    /\ SkipsAndConcatenates
    /\ audioPc = "returned" => (audioOut = Null <=> AllDecoded = <<>>)

\* null was returned for three events of which one failed to decode and one
\* decoded to no sample
C17_Witness ==
    /\ audioPc = "returned"
    /\ audioOut = Null
    /\ Len(audioEvents) = 3
    /\ FailedFragments # {}
    /\ Fragments \ FailedFragments # {}

\* the text as a base64 decoder reads it: whitespace dropped, then one or two
\* closing "=" dropped when the length is a multiple of 4
Base64Body(chars) ==
    LET t == SelectSeq(chars, LAMBDA c : c \notin {" ", "\t", "\n", "\r"})
        n == Len(t)
    IN  IF n % 4 = 0 /\ n >= 2 /\ t[n] = "=" /\ t[n - 1] = "=" THEN SubSeq(t, 1, n - 2)
        ELSE IF n % 4 = 0 /\ n >= 1 /\ t[n] = "=" THEN SubSeq(t, 1, n - 1)
        ELSE t

\* the text is base64: only characters of the alphabet, and not a lone
\* character beyond whole groups of four
IsBase64(chars) ==
    /\ Len(Base64Body(chars)) % 4 # 1
    /\ \A i \in 1..Len(Base64Body(chars)) : Base64Body(chars)[i] \in Base64Alphabet

\* the number of whole bytes the 6-bit characters of the text make
DecodedByteLength(chars) == (6 * Len(Base64Body(chars))) \div 8

\* C18: decodeAudioDelta throws for a chunk that is not base64 and for a
\* chunk that decodes to an odd number of bytes, and for no other; in
\* extractAudioFromDeltaGroup such a failure is warned of and changes nothing
\* else: the chunks decoded before stay as they were, the loop goes on, and
\* every chunk kept is what its own fragment decodes to
C18_DecodeFailureIsLocal ==
    [][ (audioEvents' # audioEvents /\ HasAudioDelta(Last(audioEvents'))) =>
          LET chars == Last(audioEvents').event.delta.chars
              fails == ~IsBase64(chars) \/ DecodedByteLength(chars) % 2 = 1
          IN  /\ decodeAudioDelta(chars).threw = fails
              /\ audioPc' = "loop"
              /\ audioOut' = audioOut
              /\ IF fails
                 THEN chunks' = chunks /\ audioWarnings' = audioWarnings + 1
                 ELSE /\ audioWarnings' = audioWarnings
                      /\ Len(chunks') >= Len(chunks)
                      /\ SubSeq(chunks', 1, Len(chunks)) = chunks
              /\ \A k \in 1..Len(chunks') :
                    chunks'[k].data =
                       decodeAudioDelta(audioEvents'[chunks'[k].id].event.delta.chars).value ]_vars

\* two samples were kept, then a fragment failed, then one sample was kept
C18_Witness ==
    /\ Len(audioEvents) = 3
    /\ audioWarnings = 1
    /\ FailedFragments = {2}
    /\ Len(chunks) = 2
    /\ Len(chunks[1].data) = 2
    /\ Len(chunks[2].data) = 1

----------------------------------------------------------------------------
(* Properties of getDeltaGroupStats *)

TextBearingTypes ==
    { "response.audio_transcript.delta", "response.text.delta",
      "conversation.item.input_audio_transcription.delta" }

\* the text member i of the group adds: its delta, else its transcript, else nothing
MemberText(i) ==
    LET payload == statsGroup.events[i].event IN
    IF "delta" \in DOMAIN payload /\ payload.delta # "" THEN payload.delta
    ELSE IF "transcript" \in DOMAIN payload /\ payload.transcript # "" THEN payload.transcript
    ELSE ""

\* the texts of the first i members, in member order
RECURSIVE TextUpTo(_)
TextUpTo(i) == IF i = 0 THEN "" ELSE TextUpTo(i - 1) \o MemberText(i)

\* C21: getDeltaGroupStats returns the number of members as count and, for a
\* group of one of the three text-bearing delta types, the members' texts
\* concatenated in member order as aggregatedText; five response.text.delta
\* members that each carry a non-empty delta give the five deltas one after
\* another
C21_StatsCountAndText ==
    statsPc = "done" =>
        /\ statsOut.count = Len(statsGroup.events)
        /\ statsGroup.eventType \in TextBearingTypes =>
              /\ "aggregatedText" \in DOMAIN statsOut
              /\ statsOut.aggregatedText = TextUpTo(Len(statsGroup.events))
        /\ ( /\ statsGroup.eventType = "response.text.delta"
             /\ Len(statsGroup.events) = 5
             /\ \A i \in 1..5 : /\ "delta" \in DOMAIN statsGroup.events[i].event
                                 /\ statsGroup.events[i].event.delta # "" ) =>
              statsOut.aggregatedText =
                 statsGroup.events[1].event.delta \o statsGroup.events[2].event.delta
                    \o statsGroup.events[3].event.delta \o statsGroup.events[4].event.delta
                    \o statsGroup.events[5].event.delta

\* five response.text.delta members, one with both fields, were aggregated
C21_Witness ==
    /\ statsPc = "done"
    /\ statsGroup.eventType = "response.text.delta"
    /\ statsOut.count = 5
    /\ statsOut.aggregatedText = "HelloaHello"

----------------------------------------------------------------------------
(* Properties of the pipeline *)

----------------------------------------------------------------------------
(* Properties of getEventCategory *)

\* type EventCategory: the twelve declared categories
DeclaredCategories ==
    { "session", "error", "conversation", "audio_buffer", "response_lifecycle",
      "response_output", "response_content", "response_audio", "response_text",
      "function_call", "rate_limits", "unknown" }

\* C23: getEventCategory returns the table's category for a type that is a
\* key of the table, returns unknown for a type that is not, and always
\* returns one of the twelve declared categories
C23_CategoryOfEveryType ==
    catPc = "done" =>
        /\ catIn \in DOMAIN EVENT_CATEGORIES =>
              catOut = [typeof |-> "string", text |-> EVENT_CATEGORIES[catIn]]
        /\ catIn \notin DOMAIN EVENT_CATEGORIES =>
              catOut = [typeof |-> "string", text |-> "unknown"]
        /\ \E c \in DeclaredCategories : catOut = [typeof |-> "string", text |-> c]

----------------------------------------------------------------------------
(* Properties of parseLogFile: session identifiers *)

\* C24: the events placed in one session carry one session identifier: no
\* session holds two lines whose bracketed session tags differ
C24_OneIdentifierPerSession ==
    \A s \in 1..Len(sessions) :
        \A i, j \in 1..Len(sessions[s].events) :
            LET a == sessions[s].events[i]
                b == sessions[s].events[j]
            IN  ("sessionId" \in DOMAIN a /\ "sessionId" \in DOMAIN b) =>
                    a.sessionId = b.sessionId

----------------------------------------------------------------------------
(* Properties of groupEvents: the open cycle *)

TypeAt(k) == events[k].event.type

\* events that close or replace an open cycle
BoundaryTypes == {RESPONSE_START, SPEECH_START, "response.done", "response.cancelled"}

\* the position in the input of an event of the input
PositionOf(e) == CHOOSE k \in 1..Len(events) : events[k] = e

\* the first position after k that holds a boundary event, 0 if there is none
NextBoundary(k) ==
    IF \E m \in (k + 1)..Len(events) : TypeAt(m) \in BoundaryTypes
    THEN CHOOSE m \in (k + 1)..Len(events) :
            /\ TypeAt(m) \in BoundaryTypes
            /\ \A j \in (k + 1)..(m - 1) : TypeAt(j) \notin BoundaryTypes
    ELSE 0

\* C25: after any prefix of the input groupEvents is either idle, with no
\* open cycle and an empty buffer, or in a cycle, with an open cycle whose
\* buffer is not empty and starts with the cycle's start event; it is in a
\* cycle exactly when the prefix holds a response.created after which there is
\* no response.done, response.cancelled or speech start
C25_IdleOrInCycle ==
    ~returned =>
        LET Idle == currentCycle = Null /\ cycleEvents = <<>>
            InCycle == /\ currentCycle # Null
                       /\ cycleEvents # <<>>
                       /\ cycleEvents[1] = currentCycle.startEvent
            Open == \E k \in 1..Len(events) :
                       /\ TypeAt(k) = "response.created"
                       /\ \A j \in (k + 1)..Len(events) :
                             TypeAt(j) \notin {"response.done", "response.cancelled",
                                               "input_audio_buffer.speech_started"}
        IN  /\ Idle \/ InCycle
            /\ InCycle <=> Open

\* a cycle is open again after speech start flushed an earlier one
C25_Witness ==
    /\ ~returned
    /\ currentCycle # Null
    /\ Len(cycleEvents) = 1
    /\ Len(events) = 4
    /\ TypeAt(3) = SPEECH_START
    /\ TypeAt(1) = RESPONSE_START

\* C26: the end event of a cycle is found by position alone: a cycle in the
\* output has an end event exactly when the first response.created, speech
\* start, response.done or response.cancelled after its start event is a
\* response.done or response.cancelled, and that event is its end event,
\* whatever response id it carries; so when a second response.created comes
\* first, the first cycle is emitted without an end event
C26_EndEventByPosition ==
    \A i \in CyclesOf(result) :
        LET c == result[i]
            k == PositionOf(c.startEvent)
            m == NextBoundary(k)
        IN  /\ TypeAt(k) = RESPONSE_START
            /\ m # 0
                \/ returned
            /\ IF m # 0 /\ TypeAt(m) \in EndTypes
               THEN Has(c, "endEvent") /\ c.endEvent = events[m]
               ELSE ~Has(c, "endEvent")

\* a second response.created came before any terminator; the first cycle
\* has no end event and the second was closed by a response.done carrying
\* another response id
C26_Witness ==
    /\ Len(result) = 4
    /\ IsCycle(result[2]) /\ ~Has(result[2], "endEvent")
    /\ IsCycle(result[4]) /\ Has(result[4], "endEvent")
    /\ Has(result[4], "responseId") /\ result[4].responseId = "resp_1"
    /\ ResponseIdOf(result[4].endEvent) = <<"resp_2">>

IsPhase(group, type) == group.kind = "phase" /\ group.type = type

\* the positions of the input that hold an event of the given type
InputsOfType(type) == {k \in 1..Len(events) : TypeAt(k) = type}

\* the positions of the output that hold a phase marker of the given type
MarkersOf(type) == {i \in 1..Len(result) : IsPhase(result[i], type)}

\* C27: response markers and response cycles correspond one to one to the
\* response.created events of the input: every cycle comes right after a
\* response marker carrying the line number of its start event, every
\* response marker is followed at once by its cycle (while the loop runs the
\* marker of the cycle still open is the last element), and there are as many
\* of each as response.created events; there are as many speech markers as
\* speech-start events, each followed at once by that event as a standalone
C27_MarkersMatchCycles ==
    /\ \A i \in CyclesOf(result) :
          /\ i > 1
          /\ IsPhase(result[i - 1], "response")
          /\ result[i - 1].lineNumber = result[i].startEvent.lineNumber
    /\ \A i \in MarkersOf("response") :
          IF i < Len(result)
          THEN /\ IsCycle(result[i + 1])
               /\ result[i + 1].startEvent.lineNumber = result[i].lineNumber
          ELSE /\ ~returned
               /\ currentCycle # Null
               /\ currentCycle.startEvent.lineNumber = result[i].lineNumber
    /\ Cardinality(MarkersOf("response")) = Cardinality(InputsOfType(RESPONSE_START))
    /\ returned =>
          Cardinality(CyclesOf(result)) = Cardinality(InputsOfType(RESPONSE_START))
    /\ \A i \in CyclesOf(result) : TypeAt(PositionOf(result[i].startEvent)) = RESPONSE_START
    /\ Cardinality(MarkersOf("speech")) = Cardinality(InputsOfType(SPEECH_START))
    /\ \A i \in MarkersOf("speech") :
          /\ i < Len(result)
          /\ result[i + 1].kind = "standalone"
          /\ result[i + 1].event.event.type = SPEECH_START
          /\ result[i + 1].event.lineNumber = result[i].lineNumber

\* two response.created and a speech start were grouped: marker, cycle,
\* speech marker, standalone, marker, cycle
C27_Witness ==
    /\ returned
    /\ Len(result) = 6
    /\ Cardinality(CyclesOf(result)) = 2
    /\ Cardinality(MarkersOf("response")) = 2
    /\ Cardinality(MarkersOf("speech")) = 1
    /\ IsCycle(result[2]) /\ Len(result[2].items) = 2

----------------------------------------------------------------------------
(* Properties of parseLogFile: session numbering *)

\* C30: within one parse the session ids are session-1, session-2, ... in
\* output order, one per session and pairwise distinct, the implicit session
\* numbered from the same counter as the sessions opened by session.created;
\* every session holds at least one event
C30_SessionsNumberedInOrder ==
    /\ \A k \in 1..Len(sessions) :
          /\ sessions[k].id = "session-" \o ToString(k)
          /\ Len(sessions[k].events) >= 1
    /\ \A i, j \in 1..Len(sessions) : i # j => sessions[i].id # sessions[j].id
    /\ sessionCounter = Len(sessions)

\* an implicit session was followed by two sessions opened by session.created
C30_Witness ==
    /\ parsePc = "returned"
    /\ Len(sessions) = 3
    /\ sessions[1].events[1].event.type # "session.created"
    /\ sessions[2].events[1].event.type = "session.created"
    /\ sessions[3].id = "session-3"
    /\ Len(sessions[2].events) = 2

----------------------------------------------------------------------------
(* Properties of createAudioPlayer and of AudioPlayButton *)

\* the nodes started by controller c that have neither ended nor been stopped
SoundingNodes(c) ==
    {n \in 1..Len(nodes) : nodes[n].owner = c /\ nodes[n].state = "playing"}

\* C28: under every interleaving of play(), stop() and the ended callbacks,
\* the controller's isPlaying is true exactly when a node it started has
\* neither ended nor been stopped, there is at most one such node, and
\* stop() silences it: the ended callback of a node stopped earlier does not
\* clear the state of a later play()
C28_PlayingIffNodeSounding ==
    \A c \in 1..Len(players) :
        /\ players[c].isPlaying <=> SoundingNodes(c) # {}
        /\ Cardinality(SoundingNodes(c)) <= 1
        /\ players[c].isPlaying => players[c].source \in SoundingNodes(c)

\* C29: under every interleaving of clicks and ended callbacks, the isPlaying
\* the mounted button shows is true exactly when playerRef holds a controller
\* that is sounding, and no two nodes sound at once: the ended callback of a
\* player stopped by a click leaves the player of a later click alone, so
\* whatever sounds belongs to the controller in playerRef and the next click
\* stops it
C29_ShownIffRefSounding ==
    /\ mounted =>
          (isPlaying <=> (playerRef # 0 /\ SoundingNodes(playerRef) # {}))
    /\ mounted =>
          \A n \in 1..Len(nodes) :
              nodes[n].state = "playing" => isPlaying /\ playerRef = nodes[n].owner
    /\ Cardinality({n \in 1..Len(nodes) : nodes[n].state = "playing"}) <= 1

====
